---- MODULE Spec2Model ----
(***************************************************************************)
(* Model of the Async -> LLVM lowering stage (AsyncToLLVM.cpp) and of the  *)
(* structural type conversions for scf / async region-bearing operations   *)
(* (StructuralTypeConversions.cpp), both carried by                        *)
(* src/mlir/include/mlir/Dialect/Linalg/Passes.h.                          *)
(*                                                                         *)
(* A unit (module) is a symbol table `symbols` plus the body `blocks` of   *)
(* the one function under conversion.  Every conversion pattern is an      *)
(* operator computing the rewriter's record of one matchAndRewrite call    *)
(* (ops created in creation order, whether the root op was replaced or     *)
(* erased, the failure message); the driver actions commit that record.    *)
(***************************************************************************)
EXTENDS Integers, Sequences, FiniteSets, TLC

VARIABLES
    symbols,   \* module symbol table, in module order
    blocks,    \* body of the function under conversion: Seq of blocks (Seq of ops)
    stage,     \* "start" | "converting" | "success" | "failure" | "crashed"
    cur,       \* worklist position of the driver
    log,       \* the rewriter's record of the last pattern application
    input,     \* the unit as it was handed to the stage
    calls,     \* how often each declaration step / the stage ran on the unit
    typeConverter  \* the TypeConverter the patterns were registered with

vars == <<symbols, blocks, stage, cur, log, input, calls, typeConverter>>

(***************************************************************************)
(* Bounds                                                                  *)
(***************************************************************************)
MaxRuns == 2

(***************************************************************************)
(* Sequence helpers                                                        *)
(***************************************************************************)
RECURSIVE SeqFilter(_, _)
SeqFilter(s, keep) ==
    IF s = <<>> THEN <<>>
    ELSE (IF Head(s) \in keep THEN <<Head(s)>> ELSE <<>>) \o SeqFilter(Tail(s), keep)

Range(s) == {s[i] : i \in 1..Len(s)}

(***************************************************************************)
(* Types.  A type is a record [k, of]: k the type constructor, of the      *)
(* payload / pointee (a simple type's name) where the constructor has one. *)
(***************************************************************************)
Ty(k, of) == [k |-> k, of |-> of]
Simple(n) == Ty(n, "")
NullType == Ty("null", "")

TokenType == Ty("async.token", "")
GroupType == Ty("async.group", "")
ValueType(payload) == Ty("async.value", payload)
CoroIdType == Ty("async.coro.id", "")
CoroStateType == Ty("async.coro.state", "")
CoroHandleType == Ty("async.coro.handle", "")
LLVMPointerType(pointee) == Ty("llvm.ptr", pointee)
LLVMVoidType == Ty("llvm.void", "")

FunctionType(inputs, results) == [inputs |-> inputs, results |-> results]

(***************************************************************************)
(* Async Runtime C API names                                               *)
(***************************************************************************)
kAddRef == "mlirAsyncRuntimeAddRef"
kDropRef == "mlirAsyncRuntimeDropRef"
kCreateToken == "mlirAsyncRuntimeCreateToken"
kCreateValue == "mlirAsyncRuntimeCreateValue"
kCreateGroup == "mlirAsyncRuntimeCreateGroup"
kEmplaceToken == "mlirAsyncRuntimeEmplaceToken"
kEmplaceValue == "mlirAsyncRuntimeEmplaceValue"
kAwaitToken == "mlirAsyncRuntimeAwaitToken"
kAwaitValue == "mlirAsyncRuntimeAwaitValue"
kAwaitGroup == "mlirAsyncRuntimeAwaitAllInGroup"
kExecute == "mlirAsyncRuntimeExecute"
kGetValueStorage == "mlirAsyncRuntimeGetValueStorage"
kAddTokenToGroup == "mlirAsyncRuntimeAddTokenToGroup"
kAwaitTokenAndExecute == "mlirAsyncRuntimeAwaitTokenAndExecute"
kAwaitValueAndExecute == "mlirAsyncRuntimeAwaitValueAndExecute"
kAwaitAllAndExecute == "mlirAsyncRuntimeAwaitAllInGroupAndExecute"
kMalloc == "malloc"
kFree == "free"
kResume == "__resume"

(***************************************************************************)
(* AsyncAPI: the runtime API function types                                *)
(***************************************************************************)
opaquePointerType == LLVMPointerType("i8")
tokenType == Ty("llvm.token", "")
resumeFunctionType == FunctionType(<<opaquePointerType>>, <<LLVMVoidType>>)
resumePointerType == LLVMPointerType("resumeFn")
addOrDropRefFunctionType == FunctionType(<<opaquePointerType, Simple("i32")>>, <<>>)
createTokenFunctionType == FunctionType(<<>>, <<TokenType>>)
createValueFunctionType == FunctionType(<<Simple("i32")>>, <<opaquePointerType>>)
createGroupFunctionType == FunctionType(<<>>, <<GroupType>>)
getValueStorageFunctionType == FunctionType(<<opaquePointerType>>, <<opaquePointerType>>)
emplaceTokenFunctionType == FunctionType(<<TokenType>>, <<>>)
emplaceValueFunctionType == FunctionType(<<opaquePointerType>>, <<>>)
awaitTokenFunctionType == FunctionType(<<TokenType>>, <<>>)
awaitValueFunctionType == FunctionType(<<opaquePointerType>>, <<>>)
awaitGroupFunctionType == FunctionType(<<GroupType>>, <<>>)
executeFunctionType == FunctionType(<<opaquePointerType, resumePointerType>>, <<>>)
addTokenToGroupFunctionType == FunctionType(<<TokenType, GroupType>>, <<Simple("i64")>>)
awaitTokenAndExecuteFunctionType ==
    FunctionType(<<TokenType, opaquePointerType, resumePointerType>>, <<>>)
awaitValueAndExecuteFunctionType ==
    FunctionType(<<opaquePointerType, opaquePointerType, resumePointerType>>, <<>>)
awaitAllAndExecuteFunctionType ==
    FunctionType(<<GroupType, opaquePointerType, resumePointerType>>, <<>>)

(***************************************************************************)
(* Module symbol table and the declaration steps                           *)
(***************************************************************************)
\* A symbol: a std FuncOp or an LLVM::LLVMFuncOp, declaration or definition.
Symbol(name, op, type, private, body) ==
    [name |-> name, op |-> op, type |-> type, private |-> private, body |-> body]

\* module.lookupSymbol(name): by name only.
lookupSymbolAlwaysMissing(syms, name) == FALSE
lookupSymbol(syms, name) == \E i \in 1..Len(syms) : syms[i].name = name

\* The lambda addFuncDecl of addAsyncRuntimeApiDeclarations.
addFuncDeclUnchecked(syms, name, type) ==
    Append(syms, Symbol(name, "func", type, TRUE, FALSE))
addFuncDecl(syms, name, type) ==
    IF lookupSymbol(syms, name) THEN syms
    ELSE Append(syms, Symbol(name, "func", type, TRUE, FALSE))

ApiDeclarations ==
    << <<kAddRef, addOrDropRefFunctionType>>,
       <<kDropRef, addOrDropRefFunctionType>>,
       <<kCreateToken, createTokenFunctionType>>,
       <<kCreateValue, createValueFunctionType>>,
       <<kCreateGroup, createGroupFunctionType>>,
       <<kEmplaceToken, emplaceTokenFunctionType>>,
       <<kEmplaceValue, emplaceValueFunctionType>>,
       <<kAwaitToken, awaitTokenFunctionType>>,
       <<kAwaitValue, awaitValueFunctionType>>,
       <<kAwaitGroup, awaitGroupFunctionType>>,
       <<kExecute, executeFunctionType>>,
       <<kGetValueStorage, getValueStorageFunctionType>>,
       <<kAddTokenToGroup, addTokenToGroupFunctionType>>,
       <<kAwaitTokenAndExecute, awaitTokenAndExecuteFunctionType>>,
       <<kAwaitValueAndExecute, awaitValueAndExecuteFunctionType>>,
       <<kAwaitAllAndExecute, awaitAllAndExecuteFunctionType>> >>

RECURSIVE addFuncDecls(_, _)
addFuncDecls(syms, decls) ==
    IF decls = <<>> THEN syms
    ELSE addFuncDecls(addFuncDecl(syms, Head(decls)[1], Head(decls)[2]), Tail(decls))

addAsyncRuntimeApiDeclarations(syms) == addFuncDecls(syms, ApiDeclarations)

\* a declaration of a C runtime function added without the lookup
addLLVMFuncDeclUnchecked(syms, name, ret, params) ==
    Append(syms, Symbol(name, "llvm.func", FunctionType(params, <<ret>>), FALSE, FALSE))
addLLVMFuncDecl(syms, name, ret, params) ==
    IF lookupSymbol(syms, name) THEN syms
    ELSE Append(syms, Symbol(name, "llvm.func", FunctionType(params, <<ret>>), FALSE, FALSE))

addCRuntimeDeclarations(syms) ==
    addLLVMFuncDecl(
        addLLVMFuncDecl(syms, kMalloc, opaquePointerType, <<Simple("i64")>>),
        kFree, LLVMVoidType, <<opaquePointerType>>)

\* The trampoline: an llvm.func with a body (llvm.intr.coro.resume; llvm.return).
addResumeFunctionUnchecked(syms) ==
    Append(syms, Symbol(kResume, "llvm.func", resumeFunctionType, TRUE, TRUE))
addResumeFunction(syms) ==
    IF lookupSymbol(syms, kResume) THEN syms
    ELSE Append(syms, Symbol(kResume, "llvm.func", resumeFunctionType, TRUE, TRUE))

(***************************************************************************)
(* Type converters                                                         *)
(***************************************************************************)
\* AsyncRuntimeTypeConverter::convertAsyncTypes; NullType stands for llvm::None.
convertAsyncTypes(type) ==
    IF type.k \in {"async.token", "async.group", "async.value"} THEN opaquePointerType
    ELSE IF type.k \in {"async.coro.id", "async.coro.state"} THEN tokenType
    ELSE IF type.k = "async.coro.handle" THEN opaquePointerType
    ELSE NullType

\* AsyncRuntimeTypeConverter: the conversions are tried last-registered first:
\* convertAsyncTypes, then the identity.
convertTypeWithoutIdentity(type) == convertAsyncTypes(type)
convertType(type) ==
    IF convertAsyncTypes(type) # NullType THEN convertAsyncTypes(type) ELSE type

\* LLVMTypeConverter on the builtin types of the model: integers and floats
\* convert to themselves, index to i64, LLVM types to themselves, and every
\* other type has no LLVM type.  "llvm.array" stands for the one array type
\* of the model, !llvm.array<4294967300 x i8>.
LLVMBuiltinConvert(type) ==
    IF type.k \in {"i1", "i8", "i32", "i64", "f32"} THEN type
    ELSE IF type.k = "index" THEN Simple("i64")
    ELSE IF type.k \in {"llvm.ptr", "llvm.token", "llvm.void", "llvm.array"} THEN type
    ELSE NullType

\* llvmConverter of runOnOperation: LLVMTypeConverter plus convertAsyncTypes.
llvmConvertType(type) ==
    IF convertAsyncTypes(type) # NullType THEN convertAsyncTypes(type)
    ELSE LLVMBuiltinConvert(type)

\* TypeConverter::isLegal(Type) and isSignatureLegal(FunctionType) for `converter`.
isLegal(type) == convertType(type) = type
isLegalTypes(types) == \A i \in 1..Len(types) : isLegal(types[i])
isSignatureLegal(ftype) == isLegalTypes(ftype.inputs) /\ isLegalTypes(ftype.results)

(***************************************************************************)
(* Operations and values                                                   *)
(***************************************************************************)
\* An SSA value: its name, the location of the op that introduced the name
\* (0: a function argument) and its type.
V(v, loc, ty) == [v |-> v, loc |-> loc, ty |-> ty]

Attr(callee, value, cases) == [callee |-> callee, value |-> value, cases |-> cases]
NoAttr == Attr("", 0, <<>>)

Op(dialect, name, loc, operands, results, attr, succs, regions) ==
    [dialect |-> dialect, name |-> name, loc |-> loc, operands |-> operands,
     results |-> results, attr |-> attr, succs |-> succs, regions |-> regions]

Types(values) == [i \in 1..Len(values) |-> values[i].ty]

\* An LLVM dialect op, a std.call and a std.constant created by a pattern.
LLVMOp(name, loc, operands, results, attr, succs) ==
    Op("llvm", name, loc, operands, results, attr, succs, <<>>)
CallOp(loc, callee, results, operands) ==
    Op("std", "std.call", loc, operands, results, Attr(callee, 0, <<>>), <<>>, <<>>)

\* The results of an op that replaces `op`: the uses of op's results are
\* redirected to them, so they carry op's result names, with the new types.
ReplacedResults(op, types) ==
    [i \in 1..Len(types) |-> V(op.results[i].v, op.results[i].loc, types[i])]

\* The operands a conversion pattern receives: the op's operands remapped to
\* the values of the converted types.
Remapped(op) ==
    [i \in 1..Len(op.operands) |->
        V(op.operands[i].v, op.operands[i].loc, convertType(op.operands[i].ty))]
\* The same for the patterns registered with llvmConverter.
RemappedLLVM(op) ==
    [i \in 1..Len(op.operands) |->
        V(op.operands[i].v, op.operands[i].loc, llvmConvertType(op.operands[i].ty))]

(***************************************************************************)
(* The rewriter's record of one matchAndRewrite call                       *)
(***************************************************************************)
Rewrite(ok, msg, created, root, resume) ==
    [ok |-> ok, msg |-> msg, created |-> created, root |-> root, resume |-> resume,
     inplace |-> <<>>]
\* success() after replaceOp / replaceOpWithNewOp: op's results are replaced
\* by the results of the last op created.
Replaced(created) == Rewrite(TRUE, "", created, "replaced", FALSE)
\* success() after eraseOp.
Erased(created) == Rewrite(TRUE, "", created, "erased", FALSE)
\* notifyMatchFailure / failure(): `created` is what the pattern had created.
MatchFailure(msg, created) == Rewrite(FALSE, msg, created, "kept", FALSE)
\* The pattern dereferences a null Type.
Crash(created) == Rewrite(FALSE, "crash", created, "crash", FALSE)
NoRewrite == Rewrite(FALSE, "", <<>>, "none", FALSE)

(***************************************************************************)
(* Coroutine lowering patterns                                             *)
(***************************************************************************)
I32Const(name, loc, n) ==
    LLVMOp("llvm.mlir.constant", loc, <<>>, <<V(name, loc, Simple("i32"))>>,
           Attr("", n, <<>>), <<>>)
I1Const(name, loc, n) ==
    LLVMOp("llvm.mlir.constant", loc, <<>>, <<V(name, loc, Simple("i1"))>>,
           Attr("", n, <<>>), <<>>)

CoroIdOpConversion(op, operands) ==
    LET constZero == I32Const("constZero", op.loc, 0)
        nullPtr == LLVMOp("llvm.mlir.null", op.loc, <<>>,
                          <<V("nullPtr", op.loc, opaquePointerType)>>, NoAttr, <<>>)
        np == nullPtr.results[1]
    IN  Replaced(<<constZero, nullPtr,
                   LLVMOp("llvm.intr.coro.id", op.loc,
                          <<constZero.results[1], np, np, np>>,
                          ReplacedResults(op, <<tokenType>>), NoAttr, <<>>)>>)

\* the frame allocated twice
CoroBeginOpConversionAllocTwice(op, operands) ==
    LET coroSize == LLVMOp("llvm.intr.coro.size", op.loc, <<>>,
                           <<V("coroSize", op.loc, Simple("i64"))>>, NoAttr, <<>>)
        coroAlloc == LLVMOp("llvm.call", op.loc, <<coroSize.results[1]>>,
                            <<V("coroAlloc", op.loc, opaquePointerType)>>,
                            Attr(kMalloc, 0, <<>>), <<>>)
    IN  Replaced(<<coroSize, coroAlloc, coroAlloc,
                   LLVMOp("llvm.intr.coro.begin", op.loc,
                          <<operands[1], coroAlloc.results[1]>>,
                          ReplacedResults(op, <<opaquePointerType>>), NoAttr, <<>>)>>)
CoroBeginOpConversion(op, operands) ==
    LET coroSize == LLVMOp("llvm.intr.coro.size", op.loc, <<>>,
                           <<V("coroSize", op.loc, Simple("i64"))>>, NoAttr, <<>>)
        coroAlloc == LLVMOp("llvm.call", op.loc, <<coroSize.results[1]>>,
                            <<V("coroAlloc", op.loc, opaquePointerType)>>,
                            Attr(kMalloc, 0, <<>>), <<>>)
        coroId == operands[1]
    IN  Replaced(<<coroSize, coroAlloc,
                   LLVMOp("llvm.intr.coro.begin", op.loc,
                          <<coroId, coroAlloc.results[1]>>,
                          ReplacedResults(op, <<opaquePointerType>>), NoAttr, <<>>)>>)

CoroFreeOpConversionTwice(op, operands) ==
    LET coroMem == LLVMOp("llvm.intr.coro.free", op.loc, operands,
                          <<V("coroMem", op.loc, opaquePointerType)>>, NoAttr, <<>>)
        free == LLVMOp("llvm.call", op.loc, <<coroMem.results[1]>>,
                       ReplacedResults(op, <<>>), Attr(kFree, 0, <<>>), <<>>)
    IN  Replaced(<<coroMem, free, free>>)
CoroFreeOpConversion(op, operands) ==
    LET coroMem == LLVMOp("llvm.intr.coro.free", op.loc, operands,
                          <<V("coroMem", op.loc, opaquePointerType)>>, NoAttr, <<>>)
    IN  Replaced(<<coroMem,
                   LLVMOp("llvm.call", op.loc, <<coroMem.results[1]>>,
                          ReplacedResults(op, <<>>), Attr(kFree, 0, <<>>), <<>>)>>)

CoroEndOpConversion(op, operands) ==
    LET constFalse == I1Const("constFalse", op.loc, 0)
        coroHdl == operands[1]
    IN  Erased(<<constFalse,
                 LLVMOp("llvm.intr.coro.end", op.loc,
                        <<coroHdl, constFalse.results[1]>>,
                        <<V("coroEnd", op.loc, Simple("i1"))>>, NoAttr, <<>>)>>)

CoroSaveOpConversion(op, operands) ==
    Replaced(<<LLVMOp("llvm.intr.coro.save", op.loc, operands,
                      ReplacedResults(op, <<tokenType>>), NoAttr, <<>>)>>)

\* async.coro.suspend %state, ^suspend, ^resume, ^cleanup
suspendDest(op) == op.succs[1]
resumeDest(op) == op.succs[2]
cleanupDest(op) == op.succs[3]

\* LLVM::SwitchOp: the successors are the default destination followed by the
\* case destinations; attr.cases are the case values.
SwitchOp(loc, value, defaultDestination, caseValues, caseDestinations) ==
    LLVMOp("llvm.switch", loc, <<value>>, <<>>, Attr("", 0, caseValues),
           <<defaultDestination>> \o caseDestinations)

CoroSuspendCaseDestSwapped(op) == <<cleanupDest(op), resumeDest(op)>>
CoroSuspendCaseDest(op) == <<resumeDest(op), cleanupDest(op)>>

\* the result code zero-extended
CoroSuspendOpConversionZExt(op, operands) ==
    LET constFalse == I1Const("constFalse", op.loc, 0)
        coroState == operands[1]
        coroSuspend == LLVMOp("llvm.intr.coro.suspend", op.loc,
                              <<coroState, constFalse.results[1]>>,
                              <<V("coroSuspend", op.loc, Simple("i8"))>>, NoAttr, <<>>)
        zext == LLVMOp("llvm.zext", op.loc, <<coroSuspend.results[1]>>,
                       <<V("sext", op.loc, Simple("i32"))>>, NoAttr, <<>>)
    IN  Replaced(<<constFalse, coroSuspend, zext,
                   SwitchOp(op.loc, zext.results[1], suspendDest(op),
                            <<0, 1>>, CoroSuspendCaseDest(op))>>)
CoroSuspendOpConversion(op, operands) ==
    LET constFalse == I1Const("constFalse", op.loc, 0)
        coroState == operands[1]
        coroSuspend == LLVMOp("llvm.intr.coro.suspend", op.loc,
                              <<coroState, constFalse.results[1]>>,
                              <<V("coroSuspend", op.loc, Simple("i8"))>>, NoAttr, <<>>)
        caseValues == <<0, 1>>
        caseDest == CoroSuspendCaseDest(op)
        sext == LLVMOp("llvm.sext", op.loc, <<coroSuspend.results[1]>>,
                       <<V("sext", op.loc, Simple("i32"))>>, NoAttr, <<>>)
    IN  Replaced(<<constFalse, coroSuspend, sext,
                   SwitchOp(op.loc, sext.results[1], suspendDest(op),
                            caseValues, caseDest)>>)

(***************************************************************************)
(* Runtime lowering patterns                                               *)
(***************************************************************************)
\* The lambda sizeOf of RuntimeCreateOpLowering: the ops it creates, the last
\* one (ptrtoint) producing the size.
\* the size of a pointer to the stored type
sizeOfPointer(op, valueType) ==
    LET storagePtrType == LLVMPointerType("llvm.ptr")
        nullPtr == LLVMOp("llvm.mlir.null", op.loc, <<>>,
                          <<V("nullPtr", op.loc, storagePtrType)>>, NoAttr, <<>>)
        one == I32Const("one", op.loc, 1)
        gep == LLVMOp("llvm.getelementptr", op.loc,
                      <<nullPtr.results[1], one.results[1]>>,
                      <<V("gep", op.loc, storagePtrType)>>, NoAttr, <<>>)
    IN  <<nullPtr, one, gep,
          LLVMOp("llvm.ptrtoint", op.loc, <<gep.results[1]>>,
                 <<V("sizeOf", op.loc, Simple("i32"))>>, NoAttr, <<>>)>>
sizeOf(op, valueType) ==
    LET storedType == llvmConvertType(Simple(valueType.of))
        storagePtrType == LLVMPointerType(storedType.k)
        nullPtr == LLVMOp("llvm.mlir.null", op.loc, <<>>,
                          <<V("nullPtr", op.loc, storagePtrType)>>, NoAttr, <<>>)
        one == I32Const("one", op.loc, 1)
        gep == LLVMOp("llvm.getelementptr", op.loc,
                      <<nullPtr.results[1], one.results[1]>>,
                      <<V("gep", op.loc, storagePtrType)>>, NoAttr, <<>>)
    IN  <<nullPtr, one, gep,
          LLVMOp("llvm.ptrtoint", op.loc, <<gep.results[1]>>,
                 <<V("sizeOf", op.loc, Simple("i32"))>>, NoAttr, <<>>)>>

\* a create lowering whose call has the converted result type for every kind
RuntimeCreateOpLoweringConverted(op, operands) ==
    LET resultType == op.results[1].ty
    IN  IF resultType.k = "async.token" \/ resultType.k = "async.group"
        THEN Replaced(<<CallOp(op.loc,
                               IF resultType.k = "async.token" THEN kCreateToken
                                                               ELSE kCreateGroup,
                               ReplacedResults(op, <<llvmConvertType(resultType)>>),
                               <<>>)>>)
        ELSE IF resultType.k = "async.value"
        THEN IF llvmConvertType(Simple(resultType.of)) = NullType
             THEN Crash(<<>>)
             ELSE LET size == sizeOf(op, resultType)
                  IN  Replaced(size \o
                               <<CallOp(op.loc, kCreateValue,
                                        ReplacedResults(op, <<llvmConvertType(resultType)>>),
                                        <<size[Len(size)].results[1]>>)>>)
        ELSE MatchFailure("unsupported async type", <<>>)
RuntimeCreateOpLowering(op, operands) ==
    LET resultType == op.results[1].ty
    IN  IF resultType.k = "async.token" \/ resultType.k = "async.group"
        THEN Replaced(<<CallOp(op.loc,
                               IF resultType.k = "async.token" THEN kCreateToken
                                                               ELSE kCreateGroup,
                               ReplacedResults(op, <<llvmConvertType(resultType)>>),
                               <<>>)>>)
        ELSE IF resultType.k = "async.value"
        THEN IF llvmConvertType(Simple(resultType.of)) = NullType
             THEN Crash(<<>>)
             ELSE LET size == sizeOf(op, resultType)
                  IN  Replaced(size \o
                               <<CallOp(op.loc, kCreateValue,
                                        ReplacedResults(op, <<resultType>>),
                                        <<size[Len(size)].results[1]>>)>>)
        ELSE MatchFailure("unsupported async type", <<>>)

SetAvailableSupportedAny(operandType) == TRUE
SetAvailableSupported(operandType) ==
    operandType.k = "async.token" \/ operandType.k = "async.value"

RuntimeSetAvailableOpLowering(op, operands) ==
    LET operandType == op.operands[1].ty
    IN  IF SetAvailableSupported(operandType)
        THEN Erased(<<CallOp(op.loc,
                             IF operandType.k = "async.token" THEN kEmplaceToken
                                                              ELSE kEmplaceValue,
                             <<>>, operands)>>)
        ELSE MatchFailure("unsupported async type", <<>>)

\* every kind awaited through the Token entry point
RuntimeAwaitOpLoweringAsToken(op, operands) ==
    Erased(<<CallOp(op.loc, kAwaitToken, <<>>, operands)>>)
RuntimeAwaitOpLowering(op, operands) ==
    LET operandType == op.operands[1].ty
    IN  IF operandType.k \notin {"async.token", "async.value", "async.group"}
        THEN MatchFailure("unsupported async type", <<>>)
        ELSE Erased(<<CallOp(op.loc,
                             IF operandType.k = "async.token" THEN kAwaitToken
                             ELSE IF operandType.k = "async.value" THEN kAwaitValue
                             ELSE kAwaitGroup,
                             <<>>, operands)>>)

\* LLVM::AddressOfOp of the trampoline.
AddressOfResume(loc) ==
    LLVMOp("llvm.mlir.addressof", loc, <<>>, <<V("resumePtr", loc, resumePointerType)>>,
           Attr(kResume, 0, <<>>), <<>>)

\* A rewrite during which addResumeFunction ran on the module.
WithResumeFunction(rw) == [rw EXCEPT !.resume = TRUE]

\* The entry point RuntimeAwaitAndResumeOpLowering selects by the kind of the
\* awaited operand.
apiFuncNameValueOnly(operandType) == kAwaitValueAndExecute
apiFuncName(operandType) ==
    IF operandType.k = "async.token" THEN kAwaitTokenAndExecute
    ELSE IF operandType.k = "async.value" THEN kAwaitValueAndExecute
    ELSE kAwaitAllAndExecute

\* the trampoline added before the kind of the operand is checked
RuntimeAwaitAndResumeOpLoweringEager(op, operands) ==
    LET operandType == op.operands[1].ty
    IN  IF operandType.k \notin {"async.token", "async.value", "async.group"}
        THEN WithResumeFunction(MatchFailure("unsupported async type", <<>>))
        ELSE LET operand == operands[1]
                 handle == operands[2]
                 resumePtr == AddressOfResume(op.loc)
             IN  WithResumeFunction(
                     Erased(<<resumePtr,
                              CallOp(op.loc, apiFuncName(operandType), <<>>,
                                     <<operand, handle, resumePtr.results[1]>>)>>))
RuntimeAwaitAndResumeOpLowering(op, operands) ==
    LET operandType == op.operands[1].ty
    IN  IF operandType.k \notin {"async.token", "async.value", "async.group"}
        THEN MatchFailure("unsupported async type", <<>>)
        ELSE LET operand == operands[1]
                 handle == operands[2]
                 resumePtr == AddressOfResume(op.loc)
             IN  WithResumeFunction(
                     Erased(<<resumePtr,
                              CallOp(op.loc, apiFuncName(operandType), <<>>,
                                     <<operand, handle, resumePtr.results[1]>>)>>))

\* Execute called on (trampoline, handle)
RuntimeResumeOpLoweringSwapped(op, operands) ==
    LET resumePtr == AddressOfResume(op.loc)
        coroHdl == operands[1]
    IN  WithResumeFunction(
            Replaced(<<resumePtr,
                       CallOp(op.loc, kExecute, ReplacedResults(op, <<>>),
                              <<resumePtr.results[1], coroHdl>>)>>))
RuntimeResumeOpLowering(op, operands) ==
    LET resumePtr == AddressOfResume(op.loc)
        coroHdl == operands[1]
    IN  WithResumeFunction(
            Replaced(<<resumePtr,
                       CallOp(op.loc, kExecute, ReplacedResults(op, <<>>),
                              <<coroHdl, resumePtr.results[1]>>)>>))

GetValueStorage(loc, storage) ==
    CallOp(loc, kGetValueStorage, <<V("storagePtr", loc, opaquePointerType)>>, <<storage>>)

\* a cast that keeps the opaque pointer type
BitcastToOpaque(loc, type, value) ==
    LLVMOp("llvm.bitcast", loc, <<value>>, <<V("castedStoragePtr", loc, opaquePointerType)>>,
           NoAttr, <<>>)
Bitcast(loc, type, value) ==
    LLVMOp("llvm.bitcast", loc, <<value>>, <<V("castedStoragePtr", loc, type)>>,
           NoAttr, <<>>)

\* a store lowering that checks the payload type before it creates anything
RuntimeStoreOpLoweringCheckFirst(op, operands) ==
    LET storage == operands[1]
        storagePtr == GetValueStorage(op.loc, storage)
        valueType == op.operands[2].ty
        llvmValueType == llvmConvertType(valueType)
        castedStoragePtr == Bitcast(op.loc, LLVMPointerType(llvmValueType.k),
                                    storagePtr.results[1])
        value == operands[2]
    IN  IF llvmValueType = NullType
        THEN MatchFailure("failed to convert stored value type to LLVM type", <<>>)
        ELSE Erased(<<storagePtr, castedStoragePtr,
                      LLVMOp("llvm.store", op.loc,
                             <<value, castedStoragePtr.results[1]>>, <<>>,
                             NoAttr, <<>>)>>)
RuntimeStoreOpLowering(op, operands) ==
    LET storage == operands[1]
        storagePtr == GetValueStorage(op.loc, storage)
        valueType == op.operands[2].ty
        llvmValueType == llvmConvertType(valueType)
        castedStoragePtr == Bitcast(op.loc, LLVMPointerType(llvmValueType.k),
                                    storagePtr.results[1])
        value == operands[2]
    IN  IF llvmValueType = NullType
        THEN MatchFailure("failed to convert stored value type to LLVM type",
                          <<storagePtr>>)
        ELSE Erased(<<storagePtr, castedStoragePtr,
                      LLVMOp("llvm.store", op.loc,
                             <<value, castedStoragePtr.results[1]>>, <<>>,
                             NoAttr, <<>>)>>)

RuntimeLoadOpLowering(op, operands) ==
    LET storage == operands[1]
        storagePtr == GetValueStorage(op.loc, storage)
        valueType == op.results[1].ty
        llvmValueType == llvmConvertType(valueType)
        castedStoragePtr == Bitcast(op.loc, LLVMPointerType(llvmValueType.k),
                                    storagePtr.results[1])
    IN  IF llvmValueType = NullType
        THEN MatchFailure("failed to convert loaded value type to LLVM type",
                          <<storagePtr>>)
        ELSE Replaced(<<storagePtr, castedStoragePtr,
                        LLVMOp("llvm.load", op.loc, <<castedStoragePtr.results[1]>>,
                               ReplacedResults(op, <<llvmValueType>>), NoAttr, <<>>)>>)

\* any kind added through the Token entry point
RuntimeAddToGroupOpLoweringAnyKind(op, operands) ==
    Replaced(<<CallOp(op.loc, kAddTokenToGroup,
                      ReplacedResults(op, <<Simple("i64")>>), operands)>>)
RuntimeAddToGroupOpLowering(op, operands) ==
    IF op.operands[1].ty.k # "async.token"
    THEN MatchFailure("only token type is supported", <<>>)
    ELSE Replaced(<<CallOp(op.loc, kAddTokenToGroup,
                           ReplacedResults(op, <<Simple("i64")>>), operands)>>)

\* RefCountingOpLowering<RefCountingOp>; op.count() is attr.value.
RefCountingOpLoweringSplit(op, operands, apiFunctionName) ==
    LET count == Op("std", "std.constant", op.loc, <<>>,
                    <<V("count", op.loc, Simple("i32"))>>,
                    Attr("", 1, <<>>), <<>>, <<>>)
        call == CallOp(op.loc, apiFunctionName, <<>>, <<operands[1], count.results[1]>>)
    IN  Replaced(<<count>> \o [i \in 1..op.attr.value |-> call])
RefCountingOpLowering(op, operands, apiFunctionName) ==
    LET count == Op("std", "std.constant", op.loc, <<>>,
                    <<V("count", op.loc, Simple("i32"))>>,
                    Attr("", op.attr.value, <<>>), <<>>, <<>>)
        operand == operands[1]
    IN  Replaced(<<count,
                   CallOp(op.loc, apiFunctionName, ReplacedResults(op, <<>>),
                          <<operand, count.results[1]>>)>>)

RuntimeAddRefOpLowering(op, operands) == RefCountingOpLowering(op, operands, kAddRef)
RuntimeDropRefOpLowering(op, operands) == RefCountingOpLowering(op, operands, kDropRef)

\* a return rebuilt on the operands it had
ReturnOpOpConversionOnOldOperands(op, operands) ==
    Replaced(<<Op("std", "std.return", op.loc, op.operands, <<>>, NoAttr, <<>>, <<>>)>>)
\* ReturnOpOpConversion
ReturnOpOpConversion(op, operands) ==
    Replaced(<<Op("std", "std.return", op.loc, operands, <<>>, NoAttr, <<>>, <<>>)>>)

(***************************************************************************)
(* Signature conversion of calls and functions (populateCallOpType-        *)
(* ConversionPattern, populateFuncOpTypeConversionPattern)                 *)
(***************************************************************************)
ConvertTypes(types) == [i \in 1..Len(types) |-> convertType(types[i])]

CallOpSignatureConversion(op, operands) ==
    Replaced(<<Op(op.dialect, op.name, op.loc, operands,
                  ReplacedResults(op, ConvertTypes(Types(op.results))),
                  op.attr, <<>>, <<>>)>>)

FuncOpSignatureConversion(sym) ==
    [sym EXCEPT !.type = FunctionType(ConvertTypes(sym.type.inputs),
                                      ConvertTypes(sym.type.results))]

(***************************************************************************)
(* The conversion target of ConvertAsyncToLLVMPass::runOnOperation         *)
(***************************************************************************)
AsyncDialectLegal(op) == TRUE
AsyncDialectIllegal(op) == FALSE

\* a target on which return and call ops are illegal whatever their types
TargetLegalStatic(op) ==
    IF op.name = "std.constant" THEN TRUE
    ELSE IF op.dialect = "llvm" THEN TRUE
    ELSE IF op.dialect = "async" THEN FALSE
    ELSE IF op.name \in {"std.return", "std.call"} THEN FALSE
    ELSE TRUE
TargetLegal(op) ==
    IF op.name = "std.constant" THEN TRUE
    ELSE IF op.dialect = "llvm" THEN TRUE
    ELSE IF op.dialect = "async" THEN AsyncDialectIllegal(op)
    ELSE IF op.name = "std.return" THEN isLegalTypes(Types(op.operands))
    ELSE IF op.name = "std.call"
         THEN isSignatureLegal(FunctionType(Types(op.operands), Types(op.results)))
    ELSE TRUE

\* a target on which every function is legal
SymbolLegalWhateverSignature(sym) == TRUE
SymbolLegal(sym) == IF sym.op = "func" THEN isSignatureLegal(sym.type) ELSE TRUE

RECURSIVE NextIllegalFrom(_, _)
NextIllegalFrom(syms, k) ==
    IF k > Len(syms) \/ ~SymbolLegal(syms[k]) THEN k ELSE NextIllegalFrom(syms, k + 1)

(***************************************************************************)
(* The driver (applyPartialConversion): worklist positions                 *)
(***************************************************************************)
\* A position: symbol `sym` itself (b = 0), the op i of block b of the body
\* of the function under conversion (r = 0), or child j of the entry block of
\* region r of it.  A region is the sequence of its blocks, a block of a
\* region the record of its arguments and ops.
Pos(sym, b, i, r, j) == [sym |-> sym, b |-> b, i |-> i, r |-> r, j |-> j]
MainSym == 1

RECURSIVE FirstOpFrom(_, _, _)
FirstOpFrom(blks, b, i) ==
    IF b > Len(blks) THEN Pos(MainSym + 1, 0, 0, 0, 0)
    ELSE IF i > Len(blks[b]) THEN FirstOpFrom(blks, b + 1, 1)
    ELSE Pos(MainSym, b, i, 0, 0)

RECURSIVE FirstChildFrom(_, _, _, _, _)
FirstChildFrom(blks, b, i, r, j) ==
    IF r > Len(blks[b][i].regions) THEN FirstOpFrom(blks, b, i + 1)
    ELSE IF blks[b][i].regions[r] = <<>> THEN FirstChildFrom(blks, b, i, r + 1, 1)
    ELSE IF j > Len(blks[b][i].regions[r][1].ops) THEN FirstChildFrom(blks, b, i, r + 1, 1)
    ELSE Pos(MainSym, b, i, r, j)

\* The walk after symbol k: into the body of the function under conversion,
\* or on to the next symbol that is not legal (legal ones are left alone).
AfterSymbol(syms, blks, k) ==
    IF k = MainSym THEN FirstOpFrom(blks, 1, 1)
    ELSE Pos(NextIllegalFrom(syms, k + 1), 0, 0, 0, 0)

AtSymbol == cur.b = 0 /\ cur.sym <= Len(symbols)
AtEnd == cur.b = 0 /\ cur.sym > Len(symbols)
AtOp == cur.b > 0
AtChild == cur.b > 0 /\ cur.r > 0

CurOp ==
    IF cur.r = 0 THEN blocks[cur.b][cur.i]
    ELSE blocks[cur.b][cur.i].regions[cur.r][1].ops[cur.j]

\* `s` with element i replaced by the sequence `new`.
SpliceAtEnd(s, i, new) == SubSeq(s, 1, i - 1) \o SubSeq(s, i + 1, Len(s)) \o new
Splice(s, i, new) == SubSeq(s, 1, i - 1) \o new \o SubSeq(s, i + 1, Len(s))

\* The body with the op at position c replaced by `new`.
ReplaceAt(blks, c, new) ==
    IF c.r = 0
    THEN [blks EXCEPT ![c.b] = Splice(@, c.i, new)]
    ELSE [blks EXCEPT ![c.b][c.i].regions[c.r][1].ops = Splice(@, c.j, new)]

\* The position the driver continues at after a rewrite at c: the first op it
\* created, or what follows.
Renormalize(blks, c) ==
    IF c.r = 0 THEN FirstOpFrom(blks, c.b, c.i)
    ELSE FirstChildFrom(blks, c.b, c.i, c.r, c.j)

NoOp == Op("", "", 0, <<>>, <<>>, NoAttr, <<>>, <<>>)
LogEntry(pattern, op, rw) == [pattern |-> pattern, op |-> op, rw |-> rw]
NoLog == LogEntry("", NoOp, NoRewrite)

\* a driver that restores the unit it was handed when a pattern fails
CommitOrRollBack(pattern, rw) ==
    /\ log' = LogEntry(pattern, CurOp, rw)
    /\ IF rw.ok
       THEN /\ blocks' = ReplaceAt(blocks, cur, rw.created)
            /\ symbols' = IF rw.resume THEN addResumeFunction(symbols) ELSE symbols
            /\ cur' = Renormalize(blocks', cur)
            /\ stage' = stage
       ELSE /\ blocks' = input.blocks
            /\ symbols' = input.symbols
            /\ cur' = cur
            /\ stage' = IF rw.root = "crash" THEN "crashed" ELSE "failure"
    /\ UNCHANGED <<typeConverter, input, calls>>
\* Commit the record of one pattern application at the current position.
Commit(pattern, rw) ==
    /\ log' = LogEntry(pattern, CurOp, rw)
    /\ symbols' = IF rw.resume THEN addResumeFunction(symbols) ELSE symbols
    /\ IF rw.ok
       THEN /\ blocks' = ReplaceAt(blocks, cur, rw.created)
            /\ cur' = Renormalize(blocks', cur)
            /\ stage' = stage
       ELSE /\ blocks' = blocks
            /\ cur' = cur
            /\ stage' = IF rw.root = "crash" THEN "crashed" ELSE "failure"
    /\ UNCHANGED <<typeConverter, input, calls>>

\* The driver is at an illegal op named `name`, for which a pattern is
\* registered.
CanLegalize(name, legal) ==
    /\ stage = "converting"
    /\ AtOp
    /\ CurOp.name = name
    /\ ~legal

(***************************************************************************)
(* Units handed to the stage                                               *)
(***************************************************************************)
MaxOps == 2
MaxRuntimeOps == 3
MaxFrees == 1
NumBlocks == 4

Arg(name, type) == V(name, 0, type)
tok == Arg("tok", TokenType)
grp == Arg("grp", GroupType)
val == Arg("val", ValueType("i32"))
valt == Arg("valt", ValueType("tensor"))
hdl == Arg("hdl", CoroHandleType)
cid == Arg("id", CoroIdType)
state == Arg("state", CoroStateType)
x32 == Arg("x", Simple("i32"))
idx == Arg("n", Simple("index"))
xt == Arg("t", Simple("tensor"))

MainArgs == <<tok, grp, val, valt, hdl, cid, state, x32, idx, xt>>
MainFunc == Symbol("main", "func", FunctionType(Types(MainArgs), <<>>), FALSE, TRUE)

Res(type) == <<V("r", 0, type)>>
AsyncOp(name, operands, results, attr, succs) ==
    Op("async", name, 0, operands, results, attr, succs, <<>>)

CoroId == AsyncOp("async.coro.id", <<>>, Res(CoroIdType), NoAttr, <<>>)
CoroBegin(id) == AsyncOp("async.coro.begin", <<id>>, Res(CoroHandleType), NoAttr, <<>>)
CoroFree(id, h) == AsyncOp("async.coro.free", <<id, h>>, <<>>, NoAttr, <<>>)
CoroEnd(h) == AsyncOp("async.coro.end", <<h>>, <<>>, NoAttr, <<>>)
CoroSave(h) == AsyncOp("async.coro.save", <<h>>, Res(CoroStateType), NoAttr, <<>>)
CoroSuspend(s, suspend, resume, cleanup) ==
    AsyncOp("async.coro.suspend", <<s>>, <<>>, NoAttr, <<suspend, resume, cleanup>>)
RuntimeCreate(type) == AsyncOp("async.runtime.create", <<>>, Res(type), NoAttr, <<>>)
RuntimeSetAvailable(v) == AsyncOp("async.runtime.set_available", <<v>>, <<>>, NoAttr, <<>>)
RuntimeAwait(v) == AsyncOp("async.runtime.await", <<v>>, <<>>, NoAttr, <<>>)
RuntimeAwaitAndResume(v, h) ==
    AsyncOp("async.runtime.await_and_resume", <<v, h>>, <<>>, NoAttr, <<>>)
RuntimeResume(h) == AsyncOp("async.runtime.resume", <<h>>, <<>>, NoAttr, <<>>)
RuntimeStore(v, storage) == AsyncOp("async.runtime.store", <<storage, v>>, <<>>, NoAttr, <<>>)
RuntimeLoad(storage, type) ==
    AsyncOp("async.runtime.load", <<storage>>, Res(type), NoAttr, <<>>)
RuntimeAddToGroup(v, g) ==
    AsyncOp("async.runtime.add_to_group", <<v, g>>, Res(Simple("index")), NoAttr, <<>>)
RuntimeAddRef(v, n) ==
    AsyncOp("async.runtime.add_ref", <<v>>, <<>>, Attr("", n, <<>>), <<>>)
RuntimeDropRef(v, n) ==
    AsyncOp("async.runtime.drop_ref", <<v>>, <<>>, Attr("", n, <<>>), <<>>)
\* async ops the stage registers no pattern for
AsyncAwait(v) == AsyncOp("async.await", <<v>>, <<>>, NoAttr, <<>>)
\* ops of other dialects
Return(operands) == Op("std", "std.return", 0, operands, <<>>, NoAttr, <<>>, <<>>)
Branch(dest) == Op("std", "std.br", 0, <<>>, <<>>, NoAttr, <<dest>>, <<>>)
UserCall(operands, results) ==
    Op("std", "std.call", 0, operands, results, Attr("user", 0, <<>>), <<>>, <<>>)
Foreign(operands) == Op("foreign", "foreign.op", 0, operands, Res(Simple("i32")), NoAttr, <<>>, <<>>)

Handles == {tok, grp, val}

CoroPool == {CoroId, CoroBegin(cid), CoroFree(cid, hdl), CoroEnd(hdl), CoroSave(hdl)}
RuntimePool ==
    {RuntimeCreate(t) : t \in {TokenType, GroupType, ValueType("i32"), ValueType("index"),
                               ValueType("tensor"), ValueType("i8"), ValueType("i64"),
                               ValueType("llvm.array"), CoroHandleType}}
    \cup {RuntimeSetAvailable(v) : v \in Handles}
    \cup {RuntimeAwait(v) : v \in Handles \cup {hdl}}
    \cup {RuntimeAwaitAndResume(v, hdl) : v \in Handles \cup {x32}}
    \cup {RuntimeResume(hdl)}
    \cup {RuntimeStore(x32, val), RuntimeStore(idx, val), RuntimeStore(xt, valt)}
    \cup {RuntimeLoad(val, Simple("i32")), RuntimeLoad(valt, Simple("tensor"))}
    \cup {RuntimeAddToGroup(tok, grp), RuntimeAddToGroup(val, grp)}
    \cup {RuntimeAddRef(tok, 1), RuntimeAddRef(val, 3), RuntimeDropRef(val, 3),
          RuntimeDropRef(grp, 2)}
OtherPool ==
    {AsyncAwait(tok), UserCall(<<tok>>, <<>>), UserCall(<<x32>>, Res(ValueType("i32"))),
     UserCall(<<x32>>, Res(Simple("i32"))), Foreign(<<x32>>), Foreign(<<tok>>)}
\* Every kind and variant of op, for the units of one op.
Pool == CoroPool \cup RuntimePool \cup OtherPool

\* The ops of the units that mix convertible, failing and foreign ops.
MixedPool ==
    {RuntimeCreate(TokenType), RuntimeSetAvailable(grp), RuntimeAwait(val),
     RuntimeStore(xt, valt), RuntimeLoad(val, Simple("i32")), RuntimeResume(hdl),
     AsyncAwait(tok), UserCall(<<tok>>, <<>>), Foreign(<<x32>>), Foreign(<<tok>>)}

\* The ops of the scenarios of the runtime lowering on values and on
\* reference counts.
ValuePool ==
    {RuntimeCreate(ValueType("i32")), RuntimeSetAvailable(val),
     RuntimeAwaitAndResume(val, hdl), RuntimeSetAvailable(grp),
     RuntimeAddRef(val, 3), RuntimeDropRef(val, 3), RuntimeResume(hdl),
     RuntimeStore(x32, val)}

Terminators == {Return(<<>>), Return(<<tok>>), Return(<<x32>>)}

SeqsUpTo(S, n) == UNION {[1..k -> S] : k \in 0..n}

\* The op as placed at location l: its results are named at l.
AtLoc(op, l) ==
    [op EXCEPT !.loc = l,
               !.results = [i \in 1..Len(op.results) |-> V(op.results[i].v, l, op.results[i].ty)]]
Located(b, ops) == [i \in 1..Len(ops) |-> AtLoc(ops[i], 10 * b + i)]

SingleUnits == {<<Located(1, <<op, Return(<<>>)>>)>> : op \in Pool}
MixedUnits ==
    {<<Located(1, ops \o <<t>>)>> :
        ops \in SeqsUpTo(MixedPool, MaxOps), t \in Terminators}
RuntimeUnits ==
    {<<Located(1, ops \o <<Return(<<>>)>>)>> : ops \in SeqsUpTo(ValuePool, MaxRuntimeOps)}

\* A coroutine: the entry block creates the frame and suspends, with any
\* wiring of the suspend's three successors; block 2 ends the coroutine,
\* block 3 (resume) and block 4 (cleanup) release the frame a number of
\* times and branch on; any further block returns.
coroId == V("r", 11, CoroIdType)
coroHdl == V("r", 12, CoroHandleType)
coroState == V("r", 13, CoroStateType)
Frees(n) == [i \in 1..n |-> CoroFree(coroId, coroHdl)]
CoroBody(w, a, b) ==
    [k \in 1..NumBlocks |->
        Located(k,
            IF k = 1 THEN <<CoroId, CoroBegin(coroId), CoroSave(coroHdl),
                            CoroSuspend(coroState, w[1], w[2], w[3])>>
            ELSE IF k = 2 THEN <<CoroEnd(coroHdl), Return(<<>>)>>
            ELSE IF k = 3 THEN Frees(a) \o <<Branch(4)>>
            ELSE IF k = 4 THEN Frees(b) \o <<Branch(2)>>
            ELSE <<Return(<<>>)>>)]
CoroUnits ==
    {CoroBody(w, a, b) : w \in [1..3 -> 1..NumBlocks], a \in 0..MaxFrees, b \in 0..MaxFrees}

(***************************************************************************)
(* ConvertAsyncToLLVMPass::runOnOperation                                  *)
(***************************************************************************)
Unit(syms, blks) == [symbols |-> syms, blocks |-> blks]

InitWith(syms, blks) ==
    /\ typeConverter = "AsyncRuntimeTypeConverter"
    /\ symbols = syms
    /\ blocks = blks
    /\ stage = "start"
    /\ cur = Pos(MainSym, 0, 0, 0, 0)
    /\ log = NoLog
    /\ input = Unit(syms, blks)
    /\ calls = [api |-> 0, c |-> 0, pass |-> 0]

Units == SingleUnits \cup MixedUnits \cup RuntimeUnits \cup CoroUnits

Init == \E blks \in Units : InitWith(<<MainFunc>>, blks)

\* The declarations are added, then the conversion starts at the first
\* op of the module.
RunDeclarations ==
    /\ stage = "start"
    /\ symbols' = addCRuntimeDeclarations(addAsyncRuntimeApiDeclarations(symbols))
    /\ stage' = "converting"
    /\ cur' = Pos(MainSym, 0, 0, 0, 0)
    /\ calls' = [api |-> calls.api + 1, c |-> calls.c + 1, pass |-> calls.pass + 1]
    /\ UNCHANGED <<typeConverter, blocks, log, input>>

\* The patterns registered by runOnOperation, one action each.
PassPatterns ==
    {"std.call", "std.return",
     "async.runtime.set_available", "async.runtime.await",
     "async.runtime.await_and_resume", "async.runtime.resume",
     "async.runtime.add_to_group", "async.runtime.add_ref", "async.runtime.drop_ref",
     "async.runtime.create", "async.runtime.store", "async.runtime.load",
     "async.coro.id", "async.coro.begin", "async.coro.free", "async.coro.end",
     "async.coro.save", "async.coro.suspend"}

ApplyCallOpSignatureConversion ==
    /\ CanLegalize("std.call", TargetLegal(CurOp))
    /\ Commit("std.call", CallOpSignatureConversion(CurOp, Remapped(CurOp)))
ApplyReturnOpOpConversion ==
    /\ CanLegalize("std.return", TargetLegal(CurOp))
    /\ Commit("std.return", ReturnOpOpConversion(CurOp, Remapped(CurOp)))
ApplyRuntimeSetAvailableOpLowering ==
    /\ CanLegalize("async.runtime.set_available", TargetLegal(CurOp))
    /\ Commit("async.runtime.set_available", RuntimeSetAvailableOpLowering(CurOp, Remapped(CurOp)))
ApplyRuntimeAwaitOpLowering ==
    /\ CanLegalize("async.runtime.await", TargetLegal(CurOp))
    /\ Commit("async.runtime.await", RuntimeAwaitOpLowering(CurOp, Remapped(CurOp)))
ApplyRuntimeAwaitAndResumeOpLowering ==
    /\ CanLegalize("async.runtime.await_and_resume", TargetLegal(CurOp))
    /\ Commit("async.runtime.await_and_resume", RuntimeAwaitAndResumeOpLowering(CurOp, Remapped(CurOp)))
ApplyRuntimeResumeOpLowering ==
    /\ CanLegalize("async.runtime.resume", TargetLegal(CurOp))
    /\ Commit("async.runtime.resume", RuntimeResumeOpLowering(CurOp, Remapped(CurOp)))
ApplyRuntimeAddToGroupOpLowering ==
    /\ CanLegalize("async.runtime.add_to_group", TargetLegal(CurOp))
    /\ Commit("async.runtime.add_to_group", RuntimeAddToGroupOpLowering(CurOp, Remapped(CurOp)))
ApplyRuntimeAddRefOpLowering ==
    /\ CanLegalize("async.runtime.add_ref", TargetLegal(CurOp))
    /\ Commit("async.runtime.add_ref", RuntimeAddRefOpLowering(CurOp, Remapped(CurOp)))
ApplyRuntimeDropRefOpLowering ==
    /\ CanLegalize("async.runtime.drop_ref", TargetLegal(CurOp))
    /\ Commit("async.runtime.drop_ref", RuntimeDropRefOpLowering(CurOp, Remapped(CurOp)))
ApplyRuntimeCreateOpLowering ==
    /\ CanLegalize("async.runtime.create", TargetLegal(CurOp))
    /\ Commit("async.runtime.create", RuntimeCreateOpLowering(CurOp, RemappedLLVM(CurOp)))
ApplyRuntimeStoreOpLowering ==
    /\ CanLegalize("async.runtime.store", TargetLegal(CurOp))
    /\ Commit("async.runtime.store", RuntimeStoreOpLowering(CurOp, RemappedLLVM(CurOp)))
ApplyRuntimeLoadOpLowering ==
    /\ CanLegalize("async.runtime.load", TargetLegal(CurOp))
    /\ Commit("async.runtime.load", RuntimeLoadOpLowering(CurOp, RemappedLLVM(CurOp)))
ApplyCoroIdOpConversion ==
    /\ CanLegalize("async.coro.id", TargetLegal(CurOp))
    /\ Commit("async.coro.id", CoroIdOpConversion(CurOp, Remapped(CurOp)))
ApplyCoroBeginOpConversion ==
    /\ CanLegalize("async.coro.begin", TargetLegal(CurOp))
    /\ Commit("async.coro.begin", CoroBeginOpConversion(CurOp, Remapped(CurOp)))
ApplyCoroFreeOpConversion ==
    /\ CanLegalize("async.coro.free", TargetLegal(CurOp))
    /\ Commit("async.coro.free", CoroFreeOpConversion(CurOp, Remapped(CurOp)))
ApplyCoroEndOpConversion ==
    /\ CanLegalize("async.coro.end", TargetLegal(CurOp))
    /\ Commit("async.coro.end", CoroEndOpConversion(CurOp, Remapped(CurOp)))
ApplyCoroSaveOpConversion ==
    /\ CanLegalize("async.coro.save", TargetLegal(CurOp))
    /\ Commit("async.coro.save", CoroSaveOpConversion(CurOp, Remapped(CurOp)))
ApplyCoroSuspendOpConversion ==
    /\ CanLegalize("async.coro.suspend", TargetLegal(CurOp))
    /\ Commit("async.coro.suspend", CoroSuspendOpConversion(CurOp, Remapped(CurOp)))

\* The function signature conversion pattern on an illegal FuncOp.
ApplyFuncOpSignatureConversion ==
    /\ stage = "converting"
    /\ AtSymbol
    /\ ~SymbolLegal(symbols[cur.sym])
    /\ symbols' = [symbols EXCEPT ![cur.sym] = FuncOpSignatureConversion(@)]
    /\ cur' = AfterSymbol(symbols', blocks, cur.sym)
    /\ UNCHANGED <<typeConverter, blocks, stage, log, input, calls>>

\* A legal symbol or op is left untouched; the walk goes on into its regions.
SkipLegalSymbol ==
    /\ stage = "converting"
    /\ AtSymbol
    /\ SymbolLegal(symbols[cur.sym])
    /\ cur' = AfterSymbol(symbols, blocks, cur.sym)
    /\ UNCHANGED <<typeConverter, symbols, blocks, stage, log, input, calls>>

SkipLegal(legal) ==
    /\ stage = "converting"
    /\ AtOp
    /\ legal
    /\ cur' = IF cur.r = 0 THEN FirstChildFrom(blocks, cur.b, cur.i, 1, 1)
              ELSE FirstChildFrom(blocks, cur.b, cur.i, cur.r, cur.j + 1)
    /\ UNCHANGED <<typeConverter, symbols, blocks, stage, log, input, calls>>

SkipLegalOp == SkipLegal(TargetLegal(CurOp))

\* An illegal op no registered pattern matches fails the conversion.
NoPattern(patterns, legal) ==
    /\ stage = "converting"
    /\ AtOp
    /\ ~legal
    /\ CurOp.name \notin patterns
    /\ stage' = "failure"
    /\ log' = LogEntry("", CurOp, MatchFailure("failed to legalize operation", <<>>))
    /\ UNCHANGED <<typeConverter, symbols, blocks, cur, input, calls>>

FailToLegalize == NoPattern(PassPatterns, TargetLegal(CurOp))

\* applyPartialConversion succeeded: runOnOperation returns without
\* signalPassFailure.
Finish ==
    /\ stage = "converting"
    /\ AtEnd
    /\ stage' = "success"
    /\ UNCHANGED <<typeConverter, symbols, blocks, cur, log, input, calls>>

\* The stage is run again on the unit it produced.
Rerun ==
    /\ stage = "success"
    /\ calls.pass < MaxRuns
    /\ stage' = "start"
    /\ log' = NoLog
    /\ UNCHANGED <<typeConverter, symbols, blocks, cur, input, calls>>

Next ==
    \/ RunDeclarations
    \/ ApplyFuncOpSignatureConversion
    \/ ApplyCallOpSignatureConversion
    \/ ApplyReturnOpOpConversion
    \/ ApplyRuntimeSetAvailableOpLowering
    \/ ApplyRuntimeAwaitOpLowering
    \/ ApplyRuntimeAwaitAndResumeOpLowering
    \/ ApplyRuntimeResumeOpLowering
    \/ ApplyRuntimeAddToGroupOpLowering
    \/ ApplyRuntimeAddRefOpLowering
    \/ ApplyRuntimeDropRefOpLowering
    \/ ApplyRuntimeCreateOpLowering
    \/ ApplyRuntimeStoreOpLowering
    \/ ApplyRuntimeLoadOpLowering
    \/ ApplyCoroIdOpConversion
    \/ ApplyCoroBeginOpConversion
    \/ ApplyCoroFreeOpConversion
    \/ ApplyCoroEndOpConversion
    \/ ApplyCoroSaveOpConversion
    \/ ApplyCoroSuspendOpConversion
    \/ SkipLegalSymbol
    \/ SkipLegalOp
    \/ FailToLegalize
    \/ Finish
    \/ Rerun

Spec == Init /\ [][Next]_vars

(***************************************************************************)
(* Helpers of the properties                                               *)
(***************************************************************************)
\* The positions <<b, i>> of the ops of a body.
OpPositions(blks) == UNION {{<<b, i>> : i \in 1..Len(blks[b])} : b \in 1..Len(blks)}
OpsOf(blks) == {blks[p[1]][p[2]] : p \in OpPositions(blks)}

\* The op of the unit handed to the stage that sits at location l.
InputOpsAt(l) == {op \in OpsOf(input.blocks) : op.loc = l}

\* The destination an llvm.switch takes on a value: the destination of the
\* case whose value it is, the default destination when there is none.
SwitchTarget(sw, code) ==
    IF \E i \in 1..Len(sw.attr.cases) : sw.attr.cases[i] = code
    THEN sw.succs[1 + CHOOSE i \in 1..Len(sw.attr.cases) : sw.attr.cases[i] = code]
    ELSE sw.succs[1]

\* The values an i8 result code takes once sign-extended to i32.
ResultCodes == -128..127

(***************************************************************************)
(* C1: every multiway branch in the unit stands at the place of a suspend  *)
(* op of the input, and sends result code 0 to that op's resume successor, *)
(* 1 to its cleanup successor and every other code to its suspend          *)
(* successor, the default; it has exactly the cases 0 and 1.               *)
(***************************************************************************)
C1_SuspendBranch ==
    \A sw \in OpsOf(blocks) :
        sw.name = "llvm.switch" =>
            /\ Cardinality(InputOpsAt(sw.loc)) = 1
            /\ \A op \in InputOpsAt(sw.loc) :
                /\ op.name = "async.coro.suspend"
                /\ sw.attr.cases = <<0, 1>>
                /\ Len(sw.succs) = 3
                /\ SwitchTarget(sw, 0) = resumeDest(op)
                /\ SwitchTarget(sw, 1) = cleanupDest(op)
                /\ \A code \in ResultCodes \ {0, 1} : SwitchTarget(sw, code) = suspendDest(op)
                /\ sw.succs[1] = suspendDest(op)

\* A suspend op whose three successors are three different blocks has been
\* lowered.
C1_Witness ==
    /\ log.pattern = "async.coro.suspend"
    /\ log.rw.ok
    /\ Cardinality({suspendDest(log.op), resumeDest(log.op), cleanupDest(log.op)}) = 3
    /\ \E sw \in OpsOf(blocks) : sw.name = "llvm.switch" /\ sw.loc = log.op.loc

\* The ops of the unit that carry location l (the op placed there, or what a
\* pattern created in its place).
OpsAt(l) == {op \in OpsOf(blocks) : op.loc = l}
CallsTo(ops, callee) == {op \in ops : op.name = "std.call" /\ op.attr.callee = callee}

(***************************************************************************)
(* C2: the lowering of a set_available on a Group fails with the           *)
(* unsupported-kind match failure, having created no op and erased         *)
(* nothing: the op is still in the unit, no call stands in its place and   *)
(* the stage fails.  The lowering succeeds only on a Token or a Value, and *)
(* then creates exactly one call, to the Emplace entry point of that kind, *)
(* on the converted operand, and erases the op.                            *)
(***************************************************************************)
C2_SetAvailable ==
    log.pattern = "async.runtime.set_available" =>
        LET kind == log.op.operands[1].ty.k
            rw == log.rw
        IN  /\ kind = "async.group" =>
                /\ ~rw.ok
                /\ rw.msg = "unsupported async type"
                /\ rw.created = <<>>
                /\ rw.root = "kept"
                /\ stage = "failure"
                /\ OpsAt(log.op.loc) = {log.op}
                /\ CurOp = log.op
            /\ rw.ok =>
                /\ kind \in {"async.token", "async.value"}
                /\ rw.root = "erased"
                /\ Len(rw.created) = 1
                /\ rw.created[1].name = "std.call"
                /\ rw.created[1].attr.callee =
                       (IF kind = "async.token" THEN kEmplaceToken ELSE kEmplaceValue)
                /\ Types(rw.created[1].operands) = <<opaquePointerType>>
                /\ rw.created[1].operands[1].v = log.op.operands[1].v
                /\ OpsAt(log.op.loc) = {rw.created[1]}
            /\ kind \in {"async.token", "async.value"} => rw.ok

\* A set_available on a Group was tried and failed.
C2_Witness ==
    /\ log.pattern = "async.runtime.set_available"
    /\ log.op.operands[1].ty = GroupType
    /\ stage = "failure"

(***************************************************************************)
(* The declaration steps on their own: any number of runs, in any order,   *)
(* on units that may already hold symbols of the names they declare.       *)
(***************************************************************************)
MaxDeclRuns == 2

PreExisting ==
    << Symbol(kAddRef, "func", addOrDropRefFunctionType, TRUE, FALSE),
       Symbol(kCreateToken, "func", FunctionType(<<>>, <<opaquePointerType>>), TRUE, FALSE),
       Symbol(kMalloc, "llvm.func", FunctionType(<<Simple("i32")>>, <<opaquePointerType>>),
              FALSE, TRUE),
       Symbol(kResume, "llvm.func", resumeFunctionType, TRUE, TRUE),
       Symbol("helper", "func", FunctionType(<<Simple("i32")>>, <<>>), FALSE, TRUE) >>

InitDecl ==
    \E keep \in SUBSET Range(PreExisting) :
        InitWith(<<MainFunc>> \o SeqFilter(PreExisting, keep),
                 <<Located(1, <<Return(<<>>)>>)>>)

RunAddAsyncRuntimeApiDeclarations ==
    /\ calls.api < MaxDeclRuns
    /\ symbols' = addAsyncRuntimeApiDeclarations(symbols)
    /\ calls' = [calls EXCEPT !.api = @ + 1]
    /\ UNCHANGED <<typeConverter, blocks, stage, cur, log, input>>

RunAddCRuntimeDeclarations ==
    /\ calls.c < MaxDeclRuns
    /\ symbols' = addCRuntimeDeclarations(symbols)
    /\ calls' = [calls EXCEPT !.c = @ + 1]
    /\ UNCHANGED <<typeConverter, blocks, stage, cur, log, input>>

NextDecl ==
    \/ RunAddAsyncRuntimeApiDeclarations
    \/ RunAddCRuntimeDeclarations

SpecDecl == InitDecl /\ [][NextDecl]_vars

ApiNames == {ApiDeclarations[i][1] : i \in 1..Len(ApiDeclarations)}
CRuntimeNames == {kMalloc, kFree}
Count(syms, name) == Cardinality({i \in 1..Len(syms) : syms[i].name = name})

(***************************************************************************)
(* C3: however often and in whatever order the two declaration steps have *)
(* run, the unit holds exactly one symbol of each name a step that ran     *)
(* declares (none is duplicated by a later run), no symbol of a name whose *)
(* step did not run unless the unit came with it, and the symbols it came  *)
(* with are untouched.                                                     *)
(***************************************************************************)
C3_OneDeclarationPerName ==
    /\ \A name \in ApiNames :
        Count(symbols, name) =
            (IF calls.api >= 1 \/ Count(input.symbols, name) = 1 THEN 1 ELSE 0)
    /\ \A name \in CRuntimeNames :
        Count(symbols, name) =
            (IF calls.c >= 1 \/ Count(input.symbols, name) = 1 THEN 1 ELSE 0)
    /\ SubSeq(symbols, 1, Len(input.symbols)) = input.symbols
    /\ \A i \in Len(input.symbols) + 1..Len(symbols) :
        symbols[i].name \in ApiNames \cup CRuntimeNames

\* Both steps ran twice on a unit that came with one ABI declaration and
\* its own malloc.
C3_Witness ==
    /\ calls.api = 2
    /\ calls.c = 2
    /\ Count(input.symbols, kAddRef) = 1
    /\ Count(input.symbols, kMalloc) = 1
    /\ Count(input.symbols, kCreateToken) = 0
    /\ Len(symbols) > Len(input.symbols)

(***************************************************************************)
(* Structural type conversions: ConvertExecuteOpTypes, ConvertAwaitOpTypes,*)
(* ConvertYieldOpTypes (async), ConvertForOpTypes, ConvertIfOpTypes and    *)
(* ConvertYieldOpTypes (scf), for the TypeConverter of the caller          *)
(***************************************************************************)
MaxResults == 2
MaxBody == 2

\* What a conversion callback yields when it dereferences a null Type.
CrashType == Ty("crash", "")

\* The conversions the caller registered itself: a bufferizing converter that
\* keeps scalars and memrefs, maps tensor to memref, and has no conversion
\* for any other type.
CallerConvert(type) ==
    IF type.k \in {"i1", "i32", "index", "memref"} THEN type
    ELSE IF type.k = "tensor" THEN Simple("memref")
    ELSE NullType

\* The caller's converter after
\* populateAsyncStructuralTypeConversionsAndLegality added its conversions:
\* a token converts to itself, a value to the value of the converted payload
\* (ValueType::get of a null Type when the payload has no conversion).
StructuralAsyncConvert(type) ==
    IF type.k = "async.token" THEN type
    ELSE IF type.k = "async.value"
         THEN IF CallerConvert(Simple(type.of)) = NullType THEN CrashType
              ELSE ValueType(CallerConvert(Simple(type.of)).k)
    ELSE CallerConvert(type)

\* The same converter when the caller registered, after the call, a
\* conversion of its own for values that fails on a payload without
\* conversion (the conversion registered last is tried first).
CheckedAsyncConvert(type) ==
    IF type.k = "async.value" /\ CallerConvert(Simple(type.of)) = NullType THEN NullType
    ELSE StructuralAsyncConvert(type)

StructuralConverters == {"AsyncRuntimeTypeConverter", "caller", "caller-checked"}

\* typeConverter->convertType(type) for the converter named tc.
convertTypeWith(tc, type) ==
    IF tc = "AsyncRuntimeTypeConverter" THEN convertType(type)
    ELSE IF tc = "caller" THEN StructuralAsyncConvert(type)
    ELSE CheckedAsyncConvert(type)

convertTypesWith(tc, types) == [i \in 1..Len(types) |-> convertTypeWith(tc, types[i])]

\* The operands a pattern receives: remapped to the converted type where the
\* converter has one.
RemappedWith(op, tc) ==
    [i \in 1..Len(op.operands) |->
        V(op.operands[i].v, op.operands[i].loc,
          IF convertTypeWith(tc, op.operands[i].ty) = NullType THEN op.operands[i].ty
          ELSE convertTypeWith(tc, op.operands[i].ty))]

\* TypeConverter::isLegal on a range of types, evaluated left to right:
\* "legal" when every type converts to itself, else what the first type that
\* does not convert to itself makes of the query.
isLegalOutcome(tc, types) ==
    LET changed == {i \in 1..Len(types) : convertTypeWith(tc, types[i]) # types[i]}
        first == CHOOSE i \in changed : \A k \in changed : i <= k
    IN  IF changed = {} THEN "legal"
        ELSE IF convertTypeWith(tc, types[first]) = CrashType THEN "crash"
        ELSE "illegal"

\* a target whose dynamic legality looks at result types only
StructuralLegalityResultsOnly(op, parent, tc) ==
    IF op.name \in {"scf.for", "scf.if", "scf.yield", "async.await", "async.execute",
                    "async.yield"}
    THEN isLegalOutcome(tc, Types(op.results))
    ELSE "legal"
\* a target without the dynamic legality of scf.yield
StructuralLegalityNoYield(op, parent, tc) ==
    IF op.name \in {"scf.for", "scf.if"} THEN isLegalOutcome(tc, Types(op.results))
    ELSE IF op.name \in {"async.await", "async.execute", "async.yield"}
         THEN isLegalOutcome(tc, Types(op.operands) \o Types(op.results))
    ELSE "legal"
\* The dynamic legality the two populate functions register on the target.
StructuralLegality(op, parent, tc) ==
    IF op.name \in {"scf.for", "scf.if"} THEN isLegalOutcome(tc, Types(op.results))
    ELSE IF op.name = "scf.yield"
         THEN IF parent.name \notin {"scf.for", "scf.if"} THEN "legal"
              ELSE isLegalOutcome(tc, Types(op.operands))
    ELSE IF op.name \in {"async.await", "async.execute", "async.yield"}
         THEN isLegalOutcome(tc, Types(op.operands) \o Types(op.results))
    ELSE "legal"

\* A block of a region, and the rewriter's operations on regions.
Block(args, ops) == [args |-> args, ops |-> ops]

cloneWithoutRegions(op) == [op EXCEPT !.regions = [r \in 1..Len(op.regions) |-> <<>>]]

inlineRegionCopied(src, dst) == [src |-> src, dst |-> dst \o src]
\* inlineRegionBefore(src, dst, dst.end()): the blocks of src are moved to
\* the end of dst.
inlineRegionBefore(src, dst) == [src |-> <<>>, dst |-> dst \o src]

\* The op and its clone after the regions `rs` of op were inlined into the
\* clone, in the order of rs.
RECURSIVE InlineRegions(_, _, _)
InlineRegions(op, newOp, rs) ==
    IF rs = <<>> THEN [old |-> op, new |-> newOp]
    ELSE LET r == Head(rs)
             moved == inlineRegionBefore(op.regions[r], newOp.regions[r])
         IN  InlineRegions([op EXCEPT !.regions[r] = moved.src],
                           [newOp EXCEPT !.regions[r] = moved.dst], Tail(rs))

\* rewriter.convertRegionTypes: the signature of the entry block is converted;
\* it fails when an argument type has no conversion.
regionTypesConvertible(region, tc) ==
    \/ region = <<>>
    \/ \A i \in 1..Len(region[1].args) : convertTypeWith(tc, region[1].args[i].ty) # NullType

convertRegionTypes(region, tc) ==
    IF region = <<>> THEN region
    ELSE [region EXCEPT ![1].args =
            [i \in 1..Len(@) |-> V(@[i].v, @[i].loc, convertTypeWith(tc, @[i].ty))]]

\* The record of a rewrite that also changed the root op in place.
InPlace(rw, old) == [rw EXCEPT !.inplace = <<old>>]

ConvertForOpTypes(op, operands, tc) ==
    LET newResultTypes == convertTypesWith(tc, Types(op.results))
        moved == InlineRegions(op, cloneWithoutRegions(op), <<1>>)
        newOp == [moved.new EXCEPT !.regions[1] = convertRegionTypes(@, tc),
                                   !.operands = operands,
                                   !.results = ReplacedResults(op, newResultTypes)]
    IN  IF \E i \in 1..Len(newResultTypes) : newResultTypes[i] = NullType
        THEN MatchFailure("not a 1:1 type conversion", <<>>)
        ELSE IF ~regionTypesConvertible(moved.new.regions[1], tc)
        THEN InPlace(MatchFailure("could not convert body types", <<moved.new>>), moved.old)
        ELSE InPlace(Replaced(<<newOp>>), moved.old)

ConvertIfOpTypes(op, operands, tc) ==
    LET newResultTypes == convertTypesWith(tc, Types(op.results))
        moved == InlineRegions(op, cloneWithoutRegions(op), <<1, 2>>)
        newOp == [moved.new EXCEPT !.operands = operands,
                                   !.results = ReplacedResults(op, newResultTypes)]
    IN  IF \E i \in 1..Len(newResultTypes) : newResultTypes[i] = NullType
        THEN MatchFailure("not a 1:1 type conversion", <<>>)
        ELSE InPlace(Replaced(<<newOp>>), moved.old)

\* The result types are converted after the clone was made and the region
\* was taken, and the converted type is set without a test.
ConvertExecuteOpTypes(op, operands, tc) ==
    LET moved == InlineRegions(op, cloneWithoutRegions(op), <<1>>)
        withOperands == [moved.new EXCEPT !.operands = operands]
        newOp == [withOperands EXCEPT
                    !.regions[1] = convertRegionTypes(@, tc),
                    !.results = ReplacedResults(op, convertTypesWith(tc, Types(op.results)))]
    IN  IF ~regionTypesConvertible(withOperands.regions[1], tc)
        THEN InPlace(MatchFailure("", <<withOperands>>), moved.old)
        ELSE IF \E i \in 1..Len(op.results) : convertTypeWith(tc, op.results[i].ty) = CrashType
        THEN InPlace(Crash(<<withOperands>>), moved.old)
        ELSE InPlace(Replaced(<<newOp>>), moved.old)

\* AwaitOp built from its operand: the result is the payload of a value
\* operand, and there is none for a token.
ConvertAwaitOpTypes(op, operands) ==
    Replaced(<<[op EXCEPT !.operands = <<operands[1]>>,
                          !.results = IF operands[1].ty.k = "async.value"
                                      THEN ReplacedResults(op, <<Simple(operands[1].ty.of)>>)
                                      ELSE <<>>]>>)

AsyncConvertYieldOpTypes(op, operands) == Replaced(<<[op EXCEPT !.operands = operands]>>)

ScfConvertYieldOpTypes(op, operands) == Replaced(<<[op EXCEPT !.operands = operands]>>)

(***************************************************************************)
(* Units with region-bearing ops                                           *)
(***************************************************************************)
ResultNames == <<"r", "s", "u", "v", "w">>
Results(types) == [i \in 1..Len(types) |-> V(ResultNames[i], 0, types[i])]
Yielded(types) == [i \in 1..Len(types) |-> Arg("y", types[i])]
cond == Arg("c", Simple("i1"))
opq == Arg("o", Simple("opaque"))
valo == Arg("valo", ValueType("opaque"))

\* n distinct ops of another dialect, then the terminator.
BodyOps == <<Foreign(<<x32>>), Foreign(<<idx>>), Foreign(<<cond>>)>>
Body(n, terminator) == SubSeq(BodyOps, 1, n) \o <<terminator>>

ScfYield(operands) == Op("scf", "scf.yield", 0, operands, <<>>, NoAttr, <<>>, <<>>)
AsyncYield(operands) == Op("async", "async.yield", 0, operands, <<>>, NoAttr, <<>>, <<>>)

ScfIf(types, n, m) ==
    Op("scf", "scf.if", 0, <<cond>>, Results(types), NoAttr, <<>>,
       <<<<Block(<<>>, Body(n, ScfYield(Yielded(types))))>>,
         <<Block(<<>>, Body(m, ScfYield(Yielded(types))))>>>>)

ScfFor(types, n) ==
    Op("scf", "scf.for", 0, <<idx, idx, idx>> \o [i \in 1..Len(types) |-> Arg("init", types[i])],
       Results(types), NoAttr, <<>>,
       <<<<Block(<<Arg("iv", Simple("index"))>> \o [i \in 1..Len(types) |-> Arg("iter", types[i])],
                 Body(n, ScfYield(Yielded(types))))>>>>)

\* async.execute: the results are a token and one value per yielded payload;
\* the body receives the payloads of the value operands.
Execute(operands, payloads, n) ==
    Op("async", "async.execute", 0, operands,
       Results(<<TokenType>> \o [i \in 1..Len(payloads) |-> ValueType(payloads[i])]),
       NoAttr, <<>>,
       <<<<Block([i \in 1..Len(operands) |-> Arg("unwrapped", Simple(operands[i].ty.of))],
                 Body(n, AsyncYield(Yielded([i \in 1..Len(payloads) |-> Simple(payloads[i])]))))>>>>)

AwaitValue(v) == Op("async", "async.await", 0, <<v>>, Res(Simple(v.ty.of)), NoAttr, <<>>, <<>>)

StructuralTypes == {Simple("i32"), Simple("tensor"), TokenType, Simple("opaque")}
Payloads == {"i32", "tensor", "opaque"}

StructuralPool ==
    {ScfIf(types, n, m) : types \in SeqsUpTo(StructuralTypes, MaxResults),
                          n \in 0..MaxBody, m \in {0, MaxBody}}
    \cup {ScfFor(types, n) : types \in SeqsUpTo(StructuralTypes, MaxResults), n \in 0..MaxBody}
    \cup {Execute(operands, payloads, MaxBody) :
            operands \in {<<>>, <<valt>>, <<valo>>}, payloads \in SeqsUpTo(Payloads, MaxResults)}
    \cup {AwaitValue(val), AwaitValue(valt), AwaitValue(valo), AsyncAwait(tok)}
    \* a yield whose parent is neither scf.for nor scf.if
    \cup {ScfYield(<<xt>>)}

\* The nested ops are named at locations below that of their parent.
LocatedRegion(l, region) ==
    [k \in 1..Len(region) |->
        Block(region[k].args, [j \in 1..Len(region[k].ops) |-> AtLoc(region[k].ops[j], 100 * l + j)])]
LocatedNested(ops) ==
    [i \in 1..Len(ops) |->
        [ops[i] EXCEPT !.regions =
            [r \in 1..Len(@) |-> LocatedRegion(10 * ops[i].loc + r, @[r])]]]

StructuralUnits == {<<LocatedNested(Located(1, <<op, Return(<<>>)>>))>> : op \in StructuralPool}

(***************************************************************************)
(* A partial conversion with the structural patterns and legality          *)
(***************************************************************************)
InitStructural ==
    /\ typeConverter \in StructuralConverters
    /\ symbols = <<MainFunc>>
    /\ blocks \in StructuralUnits
    /\ stage = "converting"
    /\ cur = FirstOpFrom(blocks, 1, 1)
    /\ log = NoLog
    /\ input = Unit(symbols, blocks)
    /\ calls = [api |-> 0, c |-> 0, pass |-> 0]

\* The op the current op is nested in: the function, or the op of the body.
FuncOp == Op("builtin", "func", 0, <<>>, <<>>, NoAttr, <<>>, <<>>)
ParentOp == IF cur.r = 0 THEN FuncOp ELSE blocks[cur.b][cur.i]

StructurallyIllegal(op) == StructuralLegality(op, ParentOp, typeConverter) = "illegal"
StructurallyLegal(op) == StructuralLegality(op, ParentOp, typeConverter) = "legal"

ApplyConvertForOpTypes ==
    /\ CanLegalize("scf.for", ~StructurallyIllegal(CurOp))
    /\ Commit("scf.for",
              ConvertForOpTypes(CurOp, RemappedWith(CurOp, typeConverter), typeConverter))

ApplyConvertIfOpTypes ==
    /\ CanLegalize("scf.if", ~StructurallyIllegal(CurOp))
    /\ Commit("scf.if",
              ConvertIfOpTypes(CurOp, RemappedWith(CurOp, typeConverter), typeConverter))

ApplyScfConvertYieldOpTypes ==
    /\ CanLegalize("scf.yield", ~StructurallyIllegal(CurOp))
    /\ Commit("scf.yield", ScfConvertYieldOpTypes(CurOp, RemappedWith(CurOp, typeConverter)))

ApplyConvertExecuteOpTypes ==
    /\ CanLegalize("async.execute", ~StructurallyIllegal(CurOp))
    /\ Commit("async.execute",
              ConvertExecuteOpTypes(CurOp, RemappedWith(CurOp, typeConverter), typeConverter))

ApplyConvertAwaitOpTypes ==
    /\ CanLegalize("async.await", ~StructurallyIllegal(CurOp))
    /\ Commit("async.await", ConvertAwaitOpTypes(CurOp, RemappedWith(CurOp, typeConverter)))

ApplyAsyncConvertYieldOpTypes ==
    /\ CanLegalize("async.yield", ~StructurallyIllegal(CurOp))
    /\ Commit("async.yield", AsyncConvertYieldOpTypes(CurOp, RemappedWith(CurOp, typeConverter)))

SkipStructurallyLegalOp == SkipLegal(StructurallyLegal(CurOp))

\* The legality callback reaches the conversion that dereferences a null Type.
CrashInLegality ==
    /\ stage = "converting"
    /\ AtOp
    /\ StructuralLegality(CurOp, ParentOp, typeConverter) = "crash"
    /\ stage' = "crashed"
    /\ log' = LogEntry("", CurOp, Crash(<<>>))
    /\ UNCHANGED <<typeConverter, symbols, blocks, cur, input, calls>>

FinishStructural ==
    /\ stage = "converting"
    /\ AtEnd
    /\ stage' = "success"
    /\ UNCHANGED <<typeConverter, symbols, blocks, cur, log, input, calls>>

NextStructural ==
    \/ ApplyConvertForOpTypes
    \/ ApplyConvertIfOpTypes
    \/ ApplyScfConvertYieldOpTypes
    \/ ApplyConvertExecuteOpTypes
    \/ ApplyConvertAwaitOpTypes
    \/ ApplyAsyncConvertYieldOpTypes
    \/ SkipStructurallyLegalOp
    \/ CrashInLegality
    \/ FinishStructural

SpecStructural == InitStructural /\ [][NextStructural]_vars

\* C4: a successful rewrite of scf.for, scf.if or async.execute leaves the
\* replacement with the regions of the old op in their order, each with the
\* same blocks and the same sequence of child ops, and the old op with no
\* block; and at every moment of the conversion each region of the unit has
\* as many child ops, of the same kinds in the same order, as in the input.
RegionPatterns == {"scf.for", "scf.if", "async.execute"}
ChildOps(region) == [k \in 1..Len(region) |-> region[k].ops]
ChildNames(region) == [k \in 1..Len(region) |-> [j \in 1..Len(region[k].ops) |-> region[k].ops[j].name]]

C4_RegionsMoved ==
    /\ (log.pattern \in RegionPatterns /\ log.rw.ok) =>
          /\ Len(log.rw.created) = 1
          /\ Len(log.rw.created[1].regions) = Len(log.op.regions)
          /\ \A r \in 1..Len(log.op.regions) :
                ChildOps(log.rw.created[1].regions[r]) = ChildOps(log.op.regions[r])
          /\ log.rw.inplace = <<cloneWithoutRegions(log.op)>>
    /\ \A i \in 1..Len(blocks[1]) :
          /\ Len(blocks[1][i].regions) = Len(input.blocks[1][i].regions)
          /\ \A r \in 1..Len(blocks[1][i].regions) :
                ChildNames(blocks[1][i].regions[r]) = ChildNames(input.blocks[1][i].regions[r])

C4_Witness ==
    /\ log.pattern = "scf.if"
    /\ log.rw.ok
    /\ Types(log.rw.created[1].results) # Types(log.op.results)
    /\ Len(log.op.regions[1][1].ops) = MaxBody + 1
    /\ Len(log.op.regions[2][1].ops) = 1
    /\ blocks[1][1] = log.rw.created[1]

\* C5: whenever scf.for, scf.if or async.execute is rewritten and the
\* converter has no converted type for one of its result types, the rewrite
\* fails with "not a 1:1 type conversion" having created no op; and no op a
\* rewrite of these creates has a result of the null type.
HasUnconvertibleResult(op) ==
    \E i \in 1..Len(op.results) : convertTypeWith(typeConverter, op.results[i].ty) = NullType

C5_NotOneToOneFailsFast ==
    log.pattern \in RegionPatterns =>
        /\ HasUnconvertibleResult(log.op) =>
              /\ ~log.rw.ok
              /\ log.rw.msg = "not a 1:1 type conversion"
              /\ log.rw.created = <<>>
        /\ \A k \in 1..Len(log.rw.created) : \A i \in 1..Len(log.rw.created[k].results) :
              log.rw.created[k].results[i].ty # NullType

(***************************************************************************)
(* Control paths of the function under conversion                          *)
(***************************************************************************)
\* The blocks control can go to from the end of block b: the successors of
\* its terminator.
Successors(blks, b) == blks[b][Len(blks[b])].succs

\* The paths from the entry block that visit no block twice.
SimplePaths(blks) ==
    {p \in UNION {[1..n -> 1..Len(blks)] : n \in 1..Len(blks)} :
        /\ p[1] = 1
        /\ \A i, j \in 1..Len(p) : i # j => p[i] # p[j]
        /\ \A i \in 1..(Len(p) - 1) : p[i + 1] \in Range(Successors(blks, p[i]))}

NamedIn(block, name) == {i \in 1..Len(block) : block[i].name = name}
DeallocateCalls(block) ==
    {i \in 1..Len(block) : block[i].name = "llvm.call" /\ block[i].attr.callee = kFree}

RECURSIVE FreesOn(_, _)
FreesOn(blks, p) ==
    IF p = <<>> THEN 0
    ELSE Cardinality(NamedIn(blks[Head(p)], "async.coro.free")) + FreesOn(blks, Tail(p))

RECURSIVE ReleasesOn(_, _)
ReleasesOn(blks, p) ==
    IF p = <<>> THEN 0
    ELSE Cardinality(DeallocateCalls(blks[Head(p)])) + ReleasesOn(blks, Tail(p))

\* The blocks a lowered suspend continues at for cleanup.
CleanupSuccessors(blks) ==
    {SwitchTarget(sw, 1) : sw \in {op \in OpsOf(blks) : op.name = "llvm.switch"}}

\* C6 as stated: after a successful run every path from the entry that ends
\* in a block with the lowered end marker, or that ends in a block without
\* successor after it went through the cleanup successor of a lowered
\* suspend, holds exactly one Deallocate call.
C6_EveryPathReleasesOnce ==
    stage = "success" =>
        \A p \in SimplePaths(blocks) :
            (\/ NamedIn(blocks[p[Len(p)]], "llvm.intr.coro.end") # {}
             \/ /\ Successors(blocks, p[Len(p)]) = <<>>
                /\ Range(p) \cap CleanupSuccessors(blocks) # {})
            => ReleasesOn(blocks, p) = 1

\* C6, amended: after a successful run the blocks have the successors they
\* had in the input, every Deallocate call takes the frame memory retrieved
\* by the op right before it, and every path from the entry holds as many
\* Deallocate calls as it held free ops in the input: one release per path
\* exactly where the input had one free per path.
C6_ReleasesFollowFrees ==
    stage = "success" =>
        /\ Len(blocks) = Len(input.blocks)
        /\ \A b \in 1..Len(blocks) :
              /\ Successors(blocks, b) = Successors(input.blocks, b)
              /\ NamedIn(blocks[b], "async.coro.free") = {}
              /\ \A i \in DeallocateCalls(blocks[b]) :
                    /\ i > 1
                    /\ blocks[b][i - 1].name = "llvm.intr.coro.free"
                    /\ blocks[b][i].operands = blocks[b][i - 1].results
        /\ \A p \in SimplePaths(blocks) : ReleasesOn(blocks, p) = FreesOn(input.blocks, p)

\* A coroutine was lowered in which the path over the cleanup successor of
\* the suspend releases the frame once before the end marker, and the path
\* that goes to the end marker directly holds no free in the input.
C6_Witness ==
    /\ stage = "success"
    /\ \E p \in SimplePaths(blocks) :
          /\ Len(p) >= 3
          /\ p[2] \in CleanupSuccessors(blocks)
          /\ NamedIn(blocks[p[Len(p)]], "llvm.intr.coro.end") # {}
          /\ FreesOn(input.blocks, p) = 1
          /\ ReleasesOn(blocks, p) = 1
    /\ \E p \in SimplePaths(blocks) :
          /\ NamedIn(blocks[p[Len(p)]], "llvm.intr.coro.end") # {}
          /\ FreesOn(input.blocks, p) = 0

(***************************************************************************)
(* C7: whenever the conversion of an async op fails (no pattern is         *)
(* registered for it, or the pattern returns failure) the stage signals    *)
(* failure; and whenever the stage reports success no op of the async      *)
(* dialect is in the unit.                                                 *)
(***************************************************************************)
C7_FailureIffAsyncRemains ==
    /\ (log.op.dialect = "async" /\ ~log.rw.ok /\ log.rw.root = "kept") => stage = "failure"
    /\ stage = "success" => \A op \in OpsOf(blocks) : op.dialect # "async"
    /\ stage = "failure" =>
          /\ ~log.rw.ok
          /\ log.op \in OpsOf(blocks)
          /\ ~TargetLegal(log.op)

\* The stage failed on an async op without pattern after it had lowered
\* another async op of the unit.
C7_Witness ==
    /\ stage = "failure"
    /\ log.op.name = "async.await"
    /\ log.pattern = ""
    /\ \E op \in OpsOf(blocks) : op.name = "std.call" /\ op.attr.callee = kCreateToken

(***************************************************************************)
(* C8: an op that is not of the async dialect and is no call or return     *)
(* that mentions a type the converter changes is never handed to a         *)
(* pattern, and stays in its block as it was: throughout the run, and so   *)
(* at success, each block holds these ops of the input, unchanged and in   *)
(* their order, and what was created stands at the place of the op it      *)
(* replaced, so that the position of every op relative to the others is    *)
(* that of the input.                                                      *)
(***************************************************************************)
MentionsLoweredType(op) ==
    \E t \in Range(Types(op.operands)) \cup Range(Types(op.results)) : convertType(t) # t
Untouchable(op) ==
    /\ op.dialect # "async"
    /\ ~(op.name \in {"std.call", "std.return"} /\ MentionsLoweredType(op))
KeptFromInput(op) == op \in OpsOf(input.blocks) /\ Untouchable(op)

C8_LegalOpsUntouched ==
    /\ log.op # NoOp => ~Untouchable(log.op)
    /\ Len(blocks) = Len(input.blocks)
    /\ \A b \in 1..Len(blocks) :
          /\ SelectSeq(blocks[b], KeptFromInput) = SelectSeq(input.blocks[b], Untouchable)
          /\ \A i, j \in 1..Len(blocks[b]) : i < j => blocks[b][i].loc <= blocks[b][j].loc

\* After a successful run an op of another dialect follows, unchanged, the
\* ops that were created in the place of the async op before it.
C8_Witness ==
    /\ stage = "success"
    /\ \E i \in 2..Len(blocks[1]) :
          /\ blocks[1][i].dialect = "foreign"
          /\ blocks[1][i] = input.blocks[1][2]
          /\ i > 2
          /\ blocks[1][i - 1].dialect = "llvm"
          /\ input.blocks[1][1].dialect = "async"

(***************************************************************************)
(* C9: the lowering of add_ref(x, n) / drop_ref(x, n) succeeds and creates *)
(* one i32 constant equal to n and one call, to AddRef resp. DropRef, on   *)
(* the converted x and that constant, and nothing else; after a successful *)
(* run the calls to AddRef and DropRef of a block are, in order, those of  *)
(* the add_ref and drop_ref ops of the input block, each with the constant *)
(* of its op: add_ref(x, 3); drop_ref(x, 3) gives AddRef(x, 3);            *)
(* DropRef(x, 3).                                                          *)
(***************************************************************************)
IsRefCountingOp(op) == op.name \in {"async.runtime.add_ref", "async.runtime.drop_ref"}
IsRefCountingCall(op) == op.name = "std.call" /\ op.attr.callee \in {kAddRef, kDropRef}
RefCountingApi(op) == IF op.name = "async.runtime.add_ref" THEN kAddRef ELSE kDropRef

\* The constant that defines the value v at location l of the unit.
ConstantOf(v) ==
    {op.attr.value : op \in {c \in OpsOf(blocks) : c.name = "std.constant" /\ c.results = <<v>>}}

\* The (callee, handle, delta) of the reference counting calls of a block.
RefCountingCalls(block) ==
    LET calls_ == SelectSeq(block, IsRefCountingCall)
    IN  [i \in 1..Len(calls_) |->
            <<calls_[i].attr.callee, calls_[i].operands[1].v, ConstantOf(calls_[i].operands[2])>>]
RefCountingOps(block) ==
    LET ops == SelectSeq(block, IsRefCountingOp)
    IN  [i \in 1..Len(ops) |-> <<RefCountingApi(ops[i]), ops[i].operands[1].v, {ops[i].attr.value}>>]

C9_OneRefCountingCall ==
    /\ IsRefCountingOp(log.op) =>
          /\ log.rw.ok
          /\ Len(log.rw.created) = 2
          /\ log.rw.created[1].name = "std.constant"
          /\ Types(log.rw.created[1].results) = <<Simple("i32")>>
          /\ log.rw.created[1].attr.value = log.op.attr.value
          /\ IsRefCountingCall(log.rw.created[2])
          /\ log.rw.created[2].attr.callee = RefCountingApi(log.op)
          /\ log.rw.created[2].operands =
                <<V(log.op.operands[1].v, log.op.operands[1].loc, opaquePointerType),
                  log.rw.created[1].results[1]>>
    /\ stage = "success" =>
          \A b \in 1..Len(blocks) : RefCountingCalls(blocks[b]) = RefCountingOps(input.blocks[b])

\* add_ref(val, 3); drop_ref(val, 3) was lowered to AddRef(val, 3);
\* DropRef(val, 3).
C9_Witness ==
    /\ stage = "success"
    /\ SelectSeq(input.blocks[1], IsRefCountingOp)
          = <<AtLoc(RuntimeAddRef(val, 3), 11), AtLoc(RuntimeDropRef(val, 3), 12)>>
    /\ RefCountingCalls(blocks[1]) = <<<<kAddRef, "val", {3}>>, <<kDropRef, "val", {3}>>>>

(***************************************************************************)
(* C10: after a successful run the unit holds as many calls to CreateValue *)
(* as the input held create ops of a Value, as many calls to EmplaceValue  *)
(* as it held set_available ops on a Value, and as many calls to           *)
(* AwaitValueAndExecute as it held await_and_resume ops on a Value; a unit *)
(* with one of each holds one call to each.                                *)
(***************************************************************************)
CallPositions(blks, callee) ==
    {p \in OpPositions(blks) :
        blks[p[1]][p[2]].name = "std.call" /\ blks[p[1]][p[2]].attr.callee = callee}
CreatesValue(op) == op.name = "async.runtime.create" /\ op.results[1].ty.k = "async.value"
EmplacesValue(op) ==
    op.name = "async.runtime.set_available" /\ op.operands[1].ty.k = "async.value"
AwaitsValueAndResumes(op) ==
    op.name = "async.runtime.await_and_resume" /\ op.operands[1].ty.k = "async.value"
InputOps == [p \in OpPositions(input.blocks) |-> input.blocks[p[1]][p[2]]]
ValueCreates == {p \in DOMAIN InputOps : CreatesValue(InputOps[p])}
ValueEmplaces == {p \in DOMAIN InputOps : EmplacesValue(InputOps[p])}
ValueAwaitAndResumes == {p \in DOMAIN InputOps : AwaitsValueAndResumes(InputOps[p])}

C10_OneCallPerValueOp ==
    stage = "success" =>
        /\ Cardinality(CallPositions(blocks, kCreateValue)) = Cardinality(ValueCreates)
        /\ Cardinality(CallPositions(blocks, kEmplaceValue)) = Cardinality(ValueEmplaces)
        /\ Cardinality(CallPositions(blocks, kAwaitValueAndExecute))
              = Cardinality(ValueAwaitAndResumes)

\* A unit with one create of a Value, one set_available on a Value and one
\* await_and_resume on a Value was lowered, and holds one call to each.
C10_Witness ==
    /\ stage = "success"
    /\ Cardinality(ValueCreates) = 1
    /\ Cardinality(ValueEmplaces) = 1
    /\ Cardinality(ValueAwaitAndResumes) = 1
    /\ Cardinality(CallPositions(blocks, kCreateValue)) = 1
    /\ Cardinality(CallPositions(blocks, kEmplaceValue)) = 1
    /\ Cardinality(CallPositions(blocks, kAwaitValueAndExecute)) = 1

(***************************************************************************)
(* C11: when the structural conversion of a unit has succeeded, every      *)
(* scf.if has the converted types of the result types it had in the input  *)
(* (for Token results under the runtime converter: the opaque pointer type *)
(* for each of them), and the scf.yield that ends each of its two branches *)
(* has operand types equal, position by position, to these result types.   *)
(***************************************************************************)
Terminator(region) == region[1].ops[Len(region[1].ops)]
IfOps(blks) == {p \in OpPositions(blks) : blks[p[1]][p[2]].name = "scf.if"}

C11_IfResultsAndYieldsAgree ==
    stage = "success" =>
        \A p \in IfOps(input.blocks) :
            LET old == input.blocks[p[1]][p[2]]
                new == blocks[p[1]][p[2]]
            IN  /\ new.name = "scf.if"
                /\ Types(new.results) = convertTypesWith(typeConverter, Types(old.results))
                /\ (typeConverter = "AsyncRuntimeTypeConverter"
                    /\ \A i \in 1..Len(old.results) : old.results[i].ty = TokenType)
                      => \A i \in 1..Len(new.results) : new.results[i].ty = opaquePointerType
                /\ \A r \in 1..2 :
                      /\ Terminator(new.regions[r]).name = "scf.yield"
                      /\ Types(Terminator(new.regions[r]).operands) = Types(new.results)

\* A conditional with two Token results was converted with the runtime
\* converter: both results and the operands of both yields are opaque
\* pointers.
C11_Witness ==
    /\ stage = "success"
    /\ typeConverter = "AsyncRuntimeTypeConverter"
    /\ input.blocks[1][1].name = "scf.if"
    /\ Types(input.blocks[1][1].results) = <<TokenType, TokenType>>
    /\ Types(blocks[1][1].results) = <<opaquePointerType, opaquePointerType>>
    /\ \A r \in 1..2 :
          Types(Terminator(blocks[1][1].regions[r]).operands)
              = <<opaquePointerType, opaquePointerType>>

(***************************************************************************)
(* What the emitted LLVM ops compute, on a target with 64-bit pointers     *)
(***************************************************************************)
\* Unsigned 64-bit words as eight base-256 digits, least significant first.
RECURSIVE Carry(_, _, _)
Carry(cols, i, c) ==
    IF i > Len(cols) THEN <<>>
    ELSE <<(cols[i] + c) % 256>> \o Carry(cols, i + 1, (cols[i] + c) \div 256)

Word(n) == Carry([i \in 1..8 |-> IF i = 1 THEN n ELSE 0], 1, 0)

WordAdd(a, b) == Carry([i \in 1..8 |-> a[i] + b[i]], 1, 0)

RECURSIVE Dot(_, _, _, _)
Dot(a, b, k, i) == IF i = 0 THEN 0 ELSE a[i] * b[k + 1 - i] + Dot(a, b, k, i - 1)

WordMul(a, b) == Carry([k \in 1..8 |-> Dot(a, b, k, k)], 1, 0)

\* The word modulo 2^bits, for bits a multiple of 8.
Truncate(a, bits) == [i \in 1..8 |-> IF 8 * i <= bits THEN a[i] ELSE 0]

\* The allocation size in bytes of an LLVM type under the default data
\* layout; the array has 2^32 + 4 elements of one byte.
PlatformSize(name) ==
    CASE name \in {"i1", "i8"} -> Word(1)
      [] name \in {"i32", "f32"} -> Word(4)
      [] name \in {"i64", "llvm.ptr"} -> Word(8)
      [] name = "llvm.array" -> <<4, 0, 0, 0, 1, 0, 0, 0>>

\* The width in bits of an integer type.
BitWidth(name) ==
    CASE name = "i8" -> 8
      [] name = "i32" -> 32
      [] name = "i64" -> 64

\* The unsigned value of the SSA value v defined among `ops` by llvm.mlir.null,
\* llvm.mlir.constant, llvm.getelementptr (one index) or llvm.ptrtoint.
RECURSIVE ValueOf(_, _)
ValueOf(ops, v) ==
    LET def == CHOOSE i \in 1..Len(ops) : ops[i].results = <<v>>
        op == ops[def]
    IN  CASE op.name = "llvm.mlir.null" -> Word(0)
          [] op.name = "llvm.mlir.constant" -> Word(op.attr.value)
          [] op.name = "llvm.getelementptr" ->
                WordAdd(ValueOf(ops, op.operands[1]),
                        WordMul(ValueOf(ops, op.operands[2]),
                                PlatformSize(op.operands[1].ty.of)))
          [] op.name = "llvm.ptrtoint" ->
                Truncate(ValueOf(ops, op.operands[1]), BitWidth(v.ty.k))

(***************************************************************************)
(* C12: the lowering of a create of a Value(T) that succeeds creates the   *)
(* null pointer to the lowered T, the constant 1, the element address of   *)
(* that pointer at index 1, its conversion to i32, and the call to         *)
(* CreateValue on that i32; the value of the argument is the platform size *)
(* of the lowered T modulo 2^32, hence that size when it is below 2^32.    *)
(***************************************************************************)
C12_SizeArgument ==
    (log.pattern = "async.runtime.create" /\ log.rw.ok
        /\ log.op.results[1].ty.k = "async.value") =>
        LET created == log.rw.created
            call == created[Len(created)]
            size == PlatformSize(llvmConvertType(Simple(log.op.results[1].ty.of)).k)
        IN  /\ [i \in 1..Len(created) |-> created[i].name]
                  = <<"llvm.mlir.null", "llvm.mlir.constant", "llvm.getelementptr",
                      "llvm.ptrtoint", "std.call">>
            /\ call.attr.callee = kCreateValue
            /\ call.operands = created[4].results
            /\ Types(call.operands) = <<Simple("i32")>>
            /\ created[1].results[1].ty
                  = LLVMPointerType(llvmConvertType(Simple(log.op.results[1].ty.of)).k)
            /\ created[3].operands = <<created[1].results[1], created[2].results[1]>>
            /\ created[2].attr.value = 1
            /\ ValueOf(created, call.operands[1]) = Truncate(size, 32)
            /\ (\A i \in 5..8 : size[i] = 0) => ValueOf(created, call.operands[1]) = size

\* A Value of an index payload (lowered to i64) was created with size 8.
C12_Witness ==
    /\ log.pattern = "async.runtime.create"
    /\ log.rw.ok
    /\ log.op.results[1].ty = ValueType("index")
    /\ ValueOf(log.rw.created, log.rw.created[5].operands[1]) = Word(8)
    /\ \E op \in OpsOf(blocks) : op.name = "std.call" /\ op.attr.callee = kCreateValue

(***************************************************************************)
(* The runtime type converter on its own: the types of a signature are     *)
(* converted one after the other.                                          *)
(***************************************************************************)
MaxTypes == 2

SignatureTypes ==
    {TokenType, GroupType, ValueType("i32"), ValueType("tensor"), ValueType("none"),
     CoroIdType, CoroStateType, CoroHandleType,
     Simple("i1"), Simple("i32"), Simple("f32"), Simple("index"), Simple("tensor"),
     Simple("memref"), Simple("none"), Simple("llvm.token"), LLVMVoidType,
     LLVMPointerType("i8"), LLVMPointerType("i32")}

InitConvert ==
    \E types \in SeqsUpTo(SignatureTypes, MaxTypes) :
        InitWith(<<Symbol("main", "func", FunctionType(types, <<>>), FALSE, TRUE)>>,
                 <<Located(1, <<Return(<<>>)>>)>>)

\* typeConverter.convertType on the next type of the signature.
RunConvertType ==
    /\ calls.pass < Len(symbols[MainSym].type.inputs)
    /\ symbols' = [symbols EXCEPT ![MainSym].type.inputs[calls.pass + 1] = convertType(@)]
    /\ calls' = [calls EXCEPT !.pass = @ + 1]
    /\ UNCHANGED <<typeConverter, blocks, stage, cur, log, input>>

NextConvert == RunConvertType

SpecConvert == InitConvert /\ [][NextConvert]_vars

(***************************************************************************)
(* C13: every type the runtime type converter was applied to has a         *)
(* converted type: the opaque pointer type for Token, Value, Group and     *)
(* CoroutineHandle, the LLVM token type for the coroutine identity and     *)
(* state, and the type itself for every other type; the types not yet      *)
(* converted are as they were.                                             *)
(***************************************************************************)
C13_ConverterTotal ==
    \A i \in 1..Len(input.symbols[MainSym].type.inputs) :
        LET old == input.symbols[MainSym].type.inputs[i]
            new == symbols[MainSym].type.inputs[i]
        IN  IF i > calls.pass THEN new = old
            ELSE /\ new # NullType
                 /\ old \in {TokenType, GroupType, CoroHandleType} => new = LLVMPointerType("i8")
                 /\ old.k = "async.value" => new = LLVMPointerType("i8")
                 /\ old \in {CoroIdType, CoroStateType} => new = Simple("llvm.token")
                 /\ (/\ old \notin {TokenType, GroupType, CoroHandleType, CoroIdType,
                                     CoroStateType}
                     /\ old.k # "async.value") => new = old

\* A signature of a Value and a tensor was converted to the opaque pointer
\* and the tensor.
C13_Witness ==
    /\ calls.pass = 2
    /\ input.symbols[MainSym].type.inputs = <<ValueType("none"), Simple("tensor")>>
    /\ symbols[MainSym].type.inputs = <<LLVMPointerType("i8"), Simple("tensor")>>

(***************************************************************************)
(* C14: the lowering of an await on a Token, a Value or a Group succeeds,  *)
(* erases the op and creates exactly one op, a call without results to     *)
(* AwaitToken, AwaitValue or AwaitAllInGroup by the kind of the operand    *)
(* alone, whose single argument is the converted operand; the call is all  *)
(* that stands at the place of the op, so no suspend, branch or coroutine  *)
(* op is emitted.                                                          *)
(***************************************************************************)
C14_AwaitOneCall ==
    (log.pattern = "async.runtime.await"
        /\ log.op.operands[1].ty.k \in {"async.token", "async.value", "async.group"}) =>
        LET kind == log.op.operands[1].ty.k
            rw == log.rw
        IN  /\ rw.ok
            /\ rw.root = "erased"
            /\ Len(rw.created) = 1
            /\ rw.created[1].name = "std.call"
            /\ rw.created[1].attr.callee =
                   (CASE kind = "async.token" -> "mlirAsyncRuntimeAwaitToken"
                      [] kind = "async.value" -> "mlirAsyncRuntimeAwaitValue"
                      [] kind = "async.group" -> "mlirAsyncRuntimeAwaitAllInGroup")
            /\ rw.created[1].results = <<>>
            /\ rw.created[1].succs = <<>>
            /\ Len(rw.created[1].operands) = 1
            /\ rw.created[1].operands[1].v = log.op.operands[1].v
            /\ rw.created[1].operands[1].ty = opaquePointerType
            /\ OpsAt(log.op.loc) = {rw.created[1]}

\* An await on a Group was lowered to the call of AwaitAllInGroup.
C14_Witness ==
    /\ log.pattern = "async.runtime.await"
    /\ log.op = AtLoc(RuntimeAwait(grp), log.op.loc)
    /\ log.rw.ok
    /\ \E op \in OpsAt(log.op.loc) :
          op.name = "std.call" /\ op.attr.callee = kAwaitGroup

(***************************************************************************)
(* C15: the lowering of an await_and_resume on a Token, Value or Group     *)
(* creates the address of the trampoline and then one call, to             *)
(* AwaitTokenAndExecute, AwaitValueAndExecute or AwaitAllInGroupAndExecute *)
(* by the kind of the awaited operand, on (converted operand, converted    *)
(* handle, trampoline address); the lowering of a resume creates the       *)
(* address of the trampoline and one call to Execute on (converted handle, *)
(* trampoline address).  Every trampoline address in the unit names the    *)
(* symbol __resume, of which the unit holds exactly one.                   *)
(***************************************************************************)
TrampolineAddresses == {op \in OpsOf(blocks) : op.name = "llvm.mlir.addressof"}

C15_ResumeCalls ==
    /\ (log.pattern = "async.runtime.await_and_resume"
          /\ log.op.operands[1].ty.k \in {"async.token", "async.value", "async.group"}) =>
          LET kind == log.op.operands[1].ty.k
              created == log.rw.created
          IN  /\ log.rw.ok
              /\ log.rw.root = "erased"
              /\ Len(created) = 2
              /\ created[1].name = "llvm.mlir.addressof"
              /\ created[1].attr.callee = "__resume"
              /\ created[2].name = "std.call"
              /\ created[2].attr.callee =
                     (CASE kind = "async.token" -> "mlirAsyncRuntimeAwaitTokenAndExecute"
                        [] kind = "async.value" -> "mlirAsyncRuntimeAwaitValueAndExecute"
                        [] kind = "async.group" -> "mlirAsyncRuntimeAwaitAllInGroupAndExecute")
              /\ created[2].results = <<>>
              /\ Len(created[2].operands) = 3
              /\ created[2].operands[1].v = log.op.operands[1].v
              /\ created[2].operands[2].v = log.op.operands[2].v
              /\ created[2].operands[3] = created[1].results[1]
              /\ Types(created[2].operands)
                    = <<opaquePointerType, opaquePointerType, resumePointerType>>
              /\ OpsAt(log.op.loc) = Range(created)
    /\ log.pattern = "async.runtime.resume" =>
          LET created == log.rw.created
          IN  /\ log.rw.ok
              /\ Len(created) = 2
              /\ created[1].name = "llvm.mlir.addressof"
              /\ created[1].attr.callee = "__resume"
              /\ created[2].name = "std.call"
              /\ created[2].attr.callee = "mlirAsyncRuntimeExecute"
              /\ created[2].results = <<>>
              /\ Len(created[2].operands) = 2
              /\ created[2].operands[1].v = log.op.operands[1].v
              /\ created[2].operands[2] = created[1].results[1]
              /\ Types(created[2].operands) = <<opaquePointerType, resumePointerType>>
              /\ OpsAt(log.op.loc) = Range(created)
    /\ TrampolineAddresses # {} =>
          /\ \A op \in TrampolineAddresses : op.attr.callee = "__resume"
          /\ Count(symbols, "__resume") = 1

\* A resume was lowered in a unit that already holds the lowering of an
\* await_and_resume: both calls take the address of __resume.
C15_Witness ==
    /\ log.pattern = "async.runtime.resume"
    /\ log.rw.ok
    /\ \E call \in CallsTo(OpsOf(blocks), kAwaitValueAndExecute) :
          call.operands[3].ty = resumePointerType
    /\ \E call \in CallsTo(OpsOf(blocks), kExecute) :
          call.operands[2].ty = resumePointerType
    /\ Cardinality(TrampolineAddresses) = 2

(***************************************************************************)
(* C16: a lowering of a resume or of an await_and_resume that succeeds     *)
(* leaves the unit with exactly one function __resume: it appends the      *)
(* trampoline, a private llvm.func with a body, when the unit has none,    *)
(* and leaves the symbols as they are when the unit has one.  No step      *)
(* leaves the unit with more than one.                                     *)
(***************************************************************************)
ResumeLowered ==
    /\ blocks' # blocks
    /\ log'.pattern \in {"async.runtime.resume", "async.runtime.await_and_resume"}
    /\ log'.rw.ok

C16_OneTrampoline ==
    [][/\ Count(symbols', "__resume") <= 1
       /\ ResumeLowered =>
            /\ Count(symbols', "__resume") = 1
            /\ IF Count(symbols, "__resume") = 1
               THEN symbols' = symbols
               ELSE /\ Len(symbols') = Len(symbols) + 1
                    /\ SubSeq(symbols', 1, Len(symbols)) = symbols
                    /\ symbols'[Len(symbols')]
                          = [name |-> "__resume", op |-> "llvm.func",
                             type |-> resumeFunctionType, private |-> TRUE, body |-> TRUE]
      ]_vars

\* Three lowerings took the address of the trampoline, two of a resume and
\* one of an await_and_resume between them, and the unit holds one __resume.
C16_Witness ==
    /\ Cardinality(TrampolineAddresses) = 3
    /\ Cardinality(CallsTo(OpsOf(blocks), kExecute)) = 2
    /\ Cardinality(CallsTo(OpsOf(blocks), kAwaitValueAndExecute)) = 1
    /\ \E call \in CallsTo(OpsOf(blocks), kAwaitValueAndExecute) : call.loc = 12
    /\ Count(symbols, kResume) = 1

(***************************************************************************)
(* C17: the lowering of a store whose value type T has an LLVM type        *)
(* creates, in this order, the call of GetValueStorage on the converted    *)
(* storage handle, the bitcast of the returned pointer to pointer-to-      *)
(* lowered-T and the llvm.store of the converted value through it, and     *)
(* erases the op; the lowering of a load whose result type T has an LLVM   *)
(* type creates the same call and bitcast and then the llvm.load whose     *)
(* result, of the lowered T, replaces the result of the load.  When T has  *)
(* no LLVM type the lowering fails and the op stays.                       *)
(***************************************************************************)
StorageAccess(created, op, lowered) ==
    /\ Len(created) = 3
    /\ created[1].name = "std.call"
    /\ created[1].attr.callee = "mlirAsyncRuntimeGetValueStorage"
    /\ Len(created[1].operands) = 1
    /\ created[1].operands[1].v = op.operands[1].v
    /\ created[1].operands[1].ty = opaquePointerType
    /\ Types(created[1].results) = <<opaquePointerType>>
    /\ created[2].name = "llvm.bitcast"
    /\ created[2].operands = created[1].results
    /\ Types(created[2].results) = <<LLVMPointerType(lowered.k)>>

C17_StoreAndLoad ==
    /\ log.pattern = "async.runtime.store" =>
          LET lowered == llvmConvertType(log.op.operands[2].ty)
              created == log.rw.created
          IN  IF lowered = NullType
              THEN /\ ~log.rw.ok
                   /\ stage = "failure"
                   /\ OpsAt(log.op.loc) = {log.op}
              ELSE /\ log.rw.ok
                   /\ log.rw.root = "erased"
                   /\ StorageAccess(created, log.op, lowered)
                   /\ created[3].name = "llvm.store"
                   /\ created[3].results = <<>>
                   /\ Len(created[3].operands) = 2
                   /\ created[3].operands[1].v = log.op.operands[2].v
                   /\ created[3].operands[1].ty = lowered
                   /\ created[3].operands[2] = created[2].results[1]
                   /\ OpsAt(log.op.loc) = Range(created)
    /\ log.pattern = "async.runtime.load" =>
          LET lowered == llvmConvertType(log.op.results[1].ty)
              created == log.rw.created
          IN  IF lowered = NullType
              THEN /\ ~log.rw.ok
                   /\ stage = "failure"
                   /\ OpsAt(log.op.loc) = {log.op}
              ELSE /\ log.rw.ok
                   /\ log.rw.root = "replaced"
                   /\ StorageAccess(created, log.op, lowered)
                   /\ created[3].name = "llvm.load"
                   /\ created[3].operands = created[2].results
                   /\ Len(created[3].results) = 1
                   /\ created[3].results[1].v = log.op.results[1].v
                   /\ created[3].results[1].loc = log.op.results[1].loc
                   /\ created[3].results[1].ty = lowered
                   /\ OpsAt(log.op.loc) = Range(created)

\* A store of an index into a Value was lowered to the call, the cast to a
\* pointer to i64 and the write of the i64.
C17_Witness ==
    /\ log.pattern = "async.runtime.store"
    /\ log.rw.ok
    /\ log.op.operands[2].ty = Simple("index")
    /\ Types(log.rw.created[2].results) = <<LLVMPointerType("i64")>>
    /\ log.rw.created[3].operands[1].ty = Simple("i64")

(***************************************************************************)
(* C18: in every block the ops stand in the order of the source ops they   *)
(* come from: each op is a source op of the block or was created for one   *)
(* and carries its location, and the locations never decrease along the    *)
(* block.  So the llvm.store created for a store into the storage of a     *)
(* value stands before the Emplace call created for a later set_available  *)
(* of that value, and the Await call created for an await of a value       *)
(* stands before the llvm.load created for a later load of that value.     *)
(***************************************************************************)
SourceOp(b, l) == CHOOSE op \in Range(input.blocks[b]) : op.loc = l

StoreThenSetAvailable(b, l, m) ==
    /\ l < m
    /\ SourceOp(b, l).name = "async.runtime.store"
    /\ SourceOp(b, m).name = "async.runtime.set_available"
    /\ SourceOp(b, l).operands[1].v = SourceOp(b, m).operands[1].v

AwaitThenLoad(b, l, m) ==
    /\ l < m
    /\ SourceOp(b, l).name = "async.runtime.await"
    /\ SourceOp(b, m).name = "async.runtime.load"
    /\ SourceOp(b, l).operands[1].v = SourceOp(b, m).operands[1].v

StructuralKinds ==
    {"scf.for", "scf.if", "scf.yield", "async.execute", "async.await", "async.yield"}

AtStructuralOp == stage = "converting" /\ AtOp /\ CurOp.name \in StructuralKinds

\* The type converter in use converts the type to itself.
Converted(type) == convertTypeWith(typeConverter, type) = type
ResultsConverted(op) == \A i \in 1..Len(op.results) : Converted(op.results[i].ty)
OperandsConverted(op) == \A i \in 1..Len(op.operands) : Converted(op.operands[i].ty)

(***************************************************************************)
(* C19 as stated: an op of a structural kind is legal exactly when all its *)
(* result types are converted types, whatever its operand types and its    *)
(* parent.                                                                 *)
(***************************************************************************)
C19_LegalIffResultsConverted ==
    AtStructuralOp => (StructurallyLegal(CurOp) <=> ResultsConverted(CurOp))

(***************************************************************************)
(* C19 amended: an scf.for or scf.if is legal exactly when all its result  *)
(* types are converted types; an scf.yield is legal exactly when its       *)
(* parent is neither an scf.for nor an scf.if or all its operand types are *)
(* converted types; an async.execute, async.await or async.yield is legal  *)
(* exactly when all its operand types and all its result types are         *)
(* converted types.                                                        *)
(***************************************************************************)
C19_LegalityPerKind ==
    AtStructuralOp =>
        (StructurallyLegal(CurOp) <=>
            CASE CurOp.name \in {"scf.for", "scf.if"} -> ResultsConverted(CurOp)
              [] CurOp.name = "scf.yield" ->
                    \/ ParentOp.name \notin {"scf.for", "scf.if"}
                    \/ OperandsConverted(CurOp)
              [] OTHER -> OperandsConverted(CurOp) /\ ResultsConverted(CurOp))

\* The conversion is at an async.execute whose results are of converted
\* types and whose operand is not: the op is illegal.
C19_Witness ==
    /\ AtStructuralOp
    /\ CurOp.name = "async.execute"
    /\ ResultsConverted(CurOp)
    /\ ~OperandsConverted(CurOp)
    /\ StructurallyIllegal(CurOp)

(***************************************************************************)
(* C20: the lowering of a create whose result is no Token, Group or Value, *)
(* of an await or await_and_resume whose awaited operand is no Token,      *)
(* Value or Group, and of an add_to_group whose added operand is no Token  *)
(* fails with a match failure, having created no op and neither erased nor *)
(* replaced the op: the op is still in the unit, alone at its place, and   *)
(* the stage fails.  A lowering of one of the four that succeeds is on a   *)
(* supported kind and ends in the call to the entry point of that kind.    *)
(***************************************************************************)
KindChecked ==
    {"async.runtime.create", "async.runtime.await", "async.runtime.await_and_resume",
     "async.runtime.add_to_group"}

\* The kind the lowering of the op looks at.
KindOf(op) ==
    IF op.name = "async.runtime.create" THEN op.results[1].ty.k ELSE op.operands[1].ty.k

\* The entry point of the op for the kind, "" when the op does not support it.
EntryPoint(name, kind) ==
    CASE name = "async.runtime.create" /\ kind = "async.token" -> "mlirAsyncRuntimeCreateToken"
      [] name = "async.runtime.create" /\ kind = "async.group" -> "mlirAsyncRuntimeCreateGroup"
      [] name = "async.runtime.create" /\ kind = "async.value" -> "mlirAsyncRuntimeCreateValue"
      [] name = "async.runtime.await" /\ kind = "async.token" -> "mlirAsyncRuntimeAwaitToken"
      [] name = "async.runtime.await" /\ kind = "async.value" -> "mlirAsyncRuntimeAwaitValue"
      [] name = "async.runtime.await" /\ kind = "async.group" ->
            "mlirAsyncRuntimeAwaitAllInGroup"
      [] name = "async.runtime.await_and_resume" /\ kind = "async.token" ->
            "mlirAsyncRuntimeAwaitTokenAndExecute"
      [] name = "async.runtime.await_and_resume" /\ kind = "async.value" ->
            "mlirAsyncRuntimeAwaitValueAndExecute"
      [] name = "async.runtime.await_and_resume" /\ kind = "async.group" ->
            "mlirAsyncRuntimeAwaitAllInGroupAndExecute"
      [] name = "async.runtime.add_to_group" /\ kind = "async.token" ->
            "mlirAsyncRuntimeAddTokenToGroup"
      [] OTHER -> ""

C20_UnsupportedKindFails ==
    log.pattern \in KindChecked =>
        LET entry == EntryPoint(log.op.name, KindOf(log.op))
            rw == log.rw
        IN  /\ entry = "" =>
                /\ ~rw.ok
                /\ rw.root = "kept"
                /\ rw.msg = (IF log.op.name = "async.runtime.add_to_group"
                             THEN "only token type is supported"
                             ELSE "unsupported async type")
                /\ rw.created = <<>>
                /\ ~rw.resume
                /\ stage = "failure"
                /\ OpsAt(log.op.loc) = {log.op}
                /\ CurOp = log.op
            /\ rw.ok =>
                /\ entry # ""
                /\ rw.created[Len(rw.created)].name = "std.call"
                /\ rw.created[Len(rw.created)].attr.callee = entry
                /\ Cardinality({i \in 1..Len(rw.created) : rw.created[i].name = "std.call"}) = 1

\* An add_to_group of a Value was tried and failed, and the op stays.
C20_Witness ==
    /\ log.pattern = "async.runtime.add_to_group"
    /\ log.op.operands[1].ty.k = "async.value"
    /\ ~log.rw.ok
    /\ log.rw.msg = "only token type is supported"
    /\ stage = "failure"
    /\ OpsAt(log.op.loc) = {log.op}

(***************************************************************************)
(* The stage under the scheduling of the driver: as long as a step is      *)
(* possible the driver takes one.                                          *)
(***************************************************************************)
\* A step of applyPartialConversion: a pattern application, a legal op or
\* symbol passed over, the failure to legalize, or the end of the unit.
Legalize ==
    \/ ApplyFuncOpSignatureConversion
    \/ ApplyCallOpSignatureConversion
    \/ ApplyReturnOpOpConversion
    \/ ApplyRuntimeSetAvailableOpLowering
    \/ ApplyRuntimeAwaitOpLowering
    \/ ApplyRuntimeAwaitAndResumeOpLowering
    \/ ApplyRuntimeResumeOpLowering
    \/ ApplyRuntimeAddToGroupOpLowering
    \/ ApplyRuntimeAddRefOpLowering
    \/ ApplyRuntimeDropRefOpLowering
    \/ ApplyRuntimeCreateOpLowering
    \/ ApplyRuntimeStoreOpLowering
    \/ ApplyRuntimeLoadOpLowering
    \/ ApplyCoroIdOpConversion
    \/ ApplyCoroBeginOpConversion
    \/ ApplyCoroFreeOpConversion
    \/ ApplyCoroEndOpConversion
    \/ ApplyCoroSaveOpConversion
    \/ ApplyCoroSuspendOpConversion
    \/ SkipLegalSymbol
    \/ SkipLegalOp
    \/ FailToLegalize
    \/ Finish

SpecFair == Init /\ [][Next]_vars /\ WF_vars(Legalize)

Ended == stage \in {"success", "failure", "crashed"}

Bytes == 0..255

\* A 32-bit integer as four base-256 digits, least significant first (two's
\* complement); n is a small signed number.
DigitsOf(n) == [i \in 1..4 |-> (n \div (256 ^ (i - 1))) % 256]
Int32(n) == IF n >= 0 THEN DigitsOf(n) ELSE [i \in 1..4 |-> 255 - DigitsOf(-n - 1)[i]]

\* The i32 the extension op makes of the 8-bit pattern b.
ExtendedTo32(ext, b) ==
    CASE ext.name = "llvm.sext" -> <<b, IF b >= 128 THEN 255 ELSE 0,
                                        IF b >= 128 THEN 255 ELSE 0,
                                        IF b >= 128 THEN 255 ELSE 0>>
      [] ext.name = "llvm.zext" -> <<b, 0, 0, 0>>

\* The case of the llvm.switch the i32 value selects: its index among the
\* case values, 0 for the default.
SelectedCase(sw, value) ==
    IF \E i \in 1..Len(sw.attr.cases) : Int32(sw.attr.cases[i]) = value
    THEN CHOOSE i \in 1..Len(sw.attr.cases) : Int32(sw.attr.cases[i]) = value
    ELSE 0

(***************************************************************************)
(* C23: the lowering of a suspend creates the llvm.coro.suspend with an i8 *)
(* result, its sign extension to i32 and the llvm.switch on the extended   *)
(* value.  For every 8-bit result code the switch selects the first case   *)
(* (the resume successor) iff the code is 0, the second (the cleanup       *)
(* successor) iff it is 1, and the default (the suspend successor) for     *)
(* every other code; the code 0xFF is extended to the 32-bit -1.           *)
(***************************************************************************)
C23_SignExtendedBranch ==
    (log.pattern = "async.coro.suspend" /\ log.rw.ok) =>
        LET created == log.rw.created
            suspend == created[2]
            ext == created[3]
            sw == created[4]
        IN  /\ Len(created) = 4
            /\ suspend.name = "llvm.intr.coro.suspend"
            /\ Types(suspend.results) = <<Simple("i8")>>
            /\ ext.operands = suspend.results
            /\ Types(ext.results) = <<Simple("i32")>>
            /\ sw.name = "llvm.switch"
            /\ sw.operands = ext.results
            /\ sw.succs = <<suspendDest(log.op), resumeDest(log.op), cleanupDest(log.op)>>
            /\ ExtendedTo32(ext, 255) = Int32(-1)
            /\ ExtendedTo32(ext, 255) = <<255, 255, 255, 255>>
            /\ \A b \in Bytes :
                  /\ SelectedCase(sw, ExtendedTo32(ext, b)) = 1 <=> b = 0
                  /\ SelectedCase(sw, ExtendedTo32(ext, b)) = 2 <=> b = 1
                  /\ SelectedCase(sw, ExtendedTo32(ext, b)) = 0 <=> b \notin {0, 1}

\* A suspend was lowered and on the code 0xFF its switch takes the default.
C23_Witness ==
    /\ log.pattern = "async.coro.suspend"
    /\ log.rw.ok
    /\ log.rw.created[3].name = "llvm.sext"
    /\ SelectedCase(log.rw.created[4], ExtendedTo32(log.rw.created[3], 255)) = 0
    /\ \E sw \in OpsAt(log.op.loc) : sw = log.rw.created[4]

(***************************************************************************)
(* C24: the lowering of a begin creates the frame size, one call of malloc *)
(* on it and the llvm.coro.begin on the converted id and the result of the *)
(* call, whose result replaces that of the begin; the lowering of a free   *)
(* creates the llvm.coro.free on the converted operands and one call of    *)
(* free on its result.  Every call of malloc in the unit stands alone at   *)
(* the place of a begin of the input and every call of free alone at the   *)
(* place of a free of the input; once the op at such a place is lowered    *)
(* its place holds exactly one such call; no other pattern creates one.    *)
(***************************************************************************)
AllocatorCalls(ops, callee) ==
    {i \in 1..Len(ops) : ops[i].name = "llvm.call" /\ ops[i].attr.callee = callee}

CallsAt(l, callee) ==
    {p \in OpPositions(blocks) :
        /\ blocks[p[1]][p[2]].loc = l
        /\ blocks[p[1]][p[2]].name = "llvm.call"
        /\ blocks[p[1]][p[2]].attr.callee = callee}

C24_AllocationPairing ==
    /\ (log.pattern = "async.coro.begin") =>
          LET created == log.rw.created
          IN  /\ log.rw.ok
              /\ log.rw.root = "replaced"
              /\ Len(created) = 3
              /\ created[1].name = "llvm.intr.coro.size"
              /\ created[2].name = "llvm.call"
              /\ created[2].attr.callee = "malloc"
              /\ created[2].operands = created[1].results
              /\ created[3].name = "llvm.intr.coro.begin"
              /\ Len(created[3].operands) = 2
              /\ created[3].operands[1].v = log.op.operands[1].v
              /\ created[3].operands[1].ty = tokenType
              /\ created[3].operands[2] = created[2].results[1]
              /\ created[3].results[1].v = log.op.results[1].v
              /\ Cardinality(CallsAt(log.op.loc, "malloc")) = 1
    /\ (log.pattern = "async.coro.free") =>
          LET created == log.rw.created
          IN  /\ log.rw.ok
              /\ Len(created) = 2
              /\ created[1].name = "llvm.intr.coro.free"
              /\ [i \in 1..Len(created[1].operands) |-> created[1].operands[i].v]
                    = [i \in 1..Len(log.op.operands) |-> log.op.operands[i].v]
              /\ \A i \in 1..Len(created[1].operands) :
                    created[1].operands[i].ty = convertType(log.op.operands[i].ty)
              /\ created[2].name = "llvm.call"
              /\ created[2].attr.callee = "free"
              /\ created[2].operands = created[1].results
              /\ Cardinality(CallsAt(log.op.loc, "free")) = 1
    /\ AllocatorCalls(log.rw.created, "malloc") # {} => log.pattern = "async.coro.begin"
    /\ AllocatorCalls(log.rw.created, "free") # {} => log.pattern = "async.coro.free"
    /\ \A op \in OpsOf(input.blocks) :
          /\ Cardinality(CallsAt(op.loc, "malloc")) =
                (IF op.name = "async.coro.begin" /\ op \notin OpsAt(op.loc) THEN 1 ELSE 0)
          /\ Cardinality(CallsAt(op.loc, "free")) =
                (IF op.name = "async.coro.free" /\ op \notin OpsAt(op.loc) THEN 1 ELSE 0)

\* A coroutine with a begin and two frees was lowered successfully: one call
\* of malloc and two calls of free.
C24_Witness ==
    /\ stage = "success"
    /\ Cardinality({op \in OpsOf(input.blocks) : op.name = "async.coro.free"}) = 2
    /\ Cardinality({p \in OpPositions(blocks) :
                       blocks[p[1]][p[2]].name = "llvm.call"
                       /\ blocks[p[1]][p[2]].attr.callee = kFree}) = 2
    /\ Cardinality({p \in OpPositions(blocks) :
                       blocks[p[1]][p[2]].name = "llvm.call"
                       /\ blocks[p[1]][p[2]].attr.callee = kMalloc}) = 1

(***************************************************************************)
(* C25: after a successful run no function of the unit, declaration or     *)
(* definition, has a type of the async dialect among its inputs or         *)
(* results, no call has one among its operand or result types and no       *)
(* return among its operand types; the declarations of CreateToken,        *)
(* CreateGroup, EmplaceToken, AwaitToken, AwaitAllInGroup and the others   *)
(* added with Token or Group types have the opaque pointer type there.     *)
(***************************************************************************)
AsyncTypeKinds ==
    {"async.token", "async.group", "async.value", "async.coro.id", "async.coro.state",
     "async.coro.handle"}

MentionsAsyncType(types) == \E i \in 1..Len(types) : types[i].k \in AsyncTypeKinds

\* The runtime functions declared with a Token or Group type.
DeclaredOnAsyncTypes ==
    {i \in 1..Len(ApiDeclarations) :
        MentionsAsyncType(ApiDeclarations[i][2].inputs \o ApiDeclarations[i][2].results)}

OpaqueWhereAsync(types) ==
    [i \in 1..Len(types) |->
        IF types[i].k \in AsyncTypeKinds THEN LLVMPointerType("i8") ELSE types[i]]

C25_NoAsyncTypeInSignatures ==
    stage = "success" =>
        /\ \A k \in 1..Len(symbols) :
              ~MentionsAsyncType(symbols[k].type.inputs \o symbols[k].type.results)
        /\ \A op \in OpsOf(blocks) :
              /\ op.name = "std.call" =>
                    ~MentionsAsyncType(Types(op.operands) \o Types(op.results))
              /\ op.name = "std.return" => ~MentionsAsyncType(Types(op.operands))
        /\ \A i \in DeclaredOnAsyncTypes :
              \E k \in 1..Len(symbols) :
                  /\ symbols[k].name = ApiDeclarations[i][1]
                  /\ symbols[k].type.inputs = OpaqueWhereAsync(ApiDeclarations[i][2].inputs)
                  /\ symbols[k].type.results = OpaqueWhereAsync(ApiDeclarations[i][2].results)

\* The run succeeded on a unit that returns a Token: CreateToken, declared
\* as returning a Token, returns the opaque pointer, and so does the return.
C25_Witness ==
    /\ stage = "success"
    /\ calls.pass = 1
    /\ createTokenFunctionType.results = <<TokenType>>
    /\ \E k \in 1..Len(symbols) :
          symbols[k].name = kCreateToken /\ symbols[k].type.results = <<opaquePointerType>>
    /\ \E op \in OpsOf(input.blocks) : op.name = "std.return" /\ Types(op.operands) = <<TokenType>>
    /\ \E op \in OpsOf(blocks) :
          op.name = "std.return" /\ Types(op.operands) = <<opaquePointerType>>
    /\ Cardinality(DeclaredOnAsyncTypes) >= 5

(***************************************************************************)
(* C26 as stated: whatever the kind of the create, the call that replaces  *)
(* it has the opaque pointer as its result type when the create pattern    *)
(* emits it, and is legal on the target.                                   *)
(***************************************************************************)
EmittedCall(rw) == rw.created[Len(rw.created)]

C26_CallLegalWhenEmitted ==
    (log.pattern = "async.runtime.create" /\ log.rw.ok) =>
        /\ Types(EmittedCall(log.rw).results) = <<opaquePointerType>>
        /\ TargetLegal(EmittedCall(log.rw))

(***************************************************************************)
(* C26: the call that replaces a create of a Token or a Group has the      *)
(* opaque pointer as its result type when it is emitted and is legal.  The *)
(* call that replaces a create of a Value is emitted with the Value type   *)
(* of the create as its result type and is illegal on the target; the      *)
(* call signature pattern then replaces it by a call of the same callee on *)
(* the same operands whose result is the opaque pointer, so that after a   *)
(* successful run every constructor call returns the opaque pointer.       *)
(***************************************************************************)
C26_CreateCallTypes ==
    /\ (log.pattern = "async.runtime.create" /\ log.rw.ok) =>
          LET call == EmittedCall(log.rw)
              kind == log.op.results[1].ty.k
          IN  /\ call.name = "std.call"
              /\ log.rw.root = "replaced"
              /\ call \in OpsAt(log.op.loc)
              /\ kind \in {"async.token", "async.group"} =>
                    /\ call.attr.callee =
                          (IF kind = "async.token" THEN kCreateToken ELSE kCreateGroup)
                    /\ Len(log.rw.created) = 1
                    /\ Types(call.results) = <<opaquePointerType>>
                    /\ TargetLegal(call)
              /\ kind = "async.value" =>
                    /\ call.attr.callee = kCreateValue
                    /\ Types(call.results) = <<log.op.results[1].ty>>
                    /\ ~TargetLegal(call)
    /\ (log.pattern = "std.call" /\ log.op.attr.callee = kCreateValue) =>
          /\ log.op.results[1].ty.k = "async.value"
          /\ log.rw.ok
          /\ Len(log.rw.created) = 1
          /\ EmittedCall(log.rw).attr.callee = kCreateValue
          /\ Types(EmittedCall(log.rw).operands) = Types(log.op.operands)
          /\ Types(EmittedCall(log.rw).results) = <<opaquePointerType>>
          /\ TargetLegal(EmittedCall(log.rw))
    /\ stage = "success" =>
          \A op \in CallsTo(OpsOf(blocks), kCreateToken) \cup CallsTo(OpsOf(blocks), kCreateGroup)
                      \cup CallsTo(OpsOf(blocks), kCreateValue) :
              Types(op.results) = <<opaquePointerType>>

\* A create of a Value has just been replaced: the call in its place returns
\* the Value type and the driver has still to legalize it.
C26_Witness ==
    /\ stage = "converting"
    /\ log.pattern = "async.runtime.create"
    /\ log.rw.ok
    /\ log.op.results[1].ty.k = "async.value"
    /\ \E op \in OpsAt(log.op.loc) :
          /\ op.name = "std.call"
          /\ op.attr.callee = kCreateValue
          /\ op.results[1].ty.k = "async.value"
          /\ ~TargetLegal(op)

(***************************************************************************)
(* The stage on units that already hold symbols of the names it declares   *)
(***************************************************************************)
\* Symbols a unit may come with: a constructor declared on the Token type,
\* an allocator of another signature that has a body, and a std function of
\* the trampoline's name.
Occupants ==
    << Symbol(kCreateToken, "func", FunctionType(<<>>, <<TokenType>>), TRUE, FALSE),
       Symbol(kMalloc, "llvm.func", FunctionType(<<Simple("i32")>>, <<opaquePointerType>>),
              FALSE, TRUE),
       Symbol(kResume, "func", FunctionType(<<Simple("i32")>>, <<>>), FALSE, TRUE) >>

InitOccupied ==
    \E keep \in SUBSET Range(Occupants),
       blks \in SingleUnits \cup CoroUnits \cup {<<Located(1, <<t>>)>> : t \in Terminators} :
        InitWith(<<MainFunc>> \o SeqFilter(Occupants, keep), blks)

SpecOccupied == InitOccupied /\ [][Next]_vars

DeclaredNames == ApiNames \cup CRuntimeNames \cup {kResume}

\* The indices of the symbols the unit came with under a name the stage
\* declares.
Occupied == {k \in 1..Len(input.symbols) : input.symbols[k].name \in DeclaredNames}

\* The names the calls and the taken addresses of the body refer to.
Referenced ==
    {op.attr.callee : op \in {o \in OpsOf(blocks) : o.name \in {"std.call", "llvm.call"}}}
        \cup {op.attr.callee : op \in TrampolineAddresses}

(***************************************************************************)
(* C27 as stated: a symbol the unit came with under a name the stage       *)
(* declares is never altered by the stage and no second symbol of that     *)
(* name is inserted.                                                       *)
(***************************************************************************)
C27_ExistingSymbolUntouched ==
    \A k \in Occupied :
        /\ symbols[k] = input.symbols[k]
        /\ Count(symbols, input.symbols[k].name) = 1

(***************************************************************************)
(* C27: the lookups before a declaration or the trampoline is inserted are *)
(* by name only.  A symbol the unit came with under such a name stays the  *)
(* only symbol of that name, whatever its kind, signature or body; the     *)
(* insertion steps do not alter it, and the stage as a whole alters it in  *)
(* one case only: a std function whose signature mentions an async type    *)
(* has its signature converted like any other function of the unit.  The   *)
(* calls and addresses the patterns emit still refer to the name.          *)
(***************************************************************************)
C27_ExistenceByName ==
    /\ \A k \in Occupied :
          /\ Count(symbols, input.symbols[k].name) = 1
          /\ symbols[k] \in {input.symbols[k], FuncOpSignatureConversion(input.symbols[k])}
          /\ SymbolLegal(input.symbols[k]) => symbols[k] = input.symbols[k]
          /\ stage = "success" =>
                symbols[k] = (IF SymbolLegal(input.symbols[k]) THEN input.symbols[k]
                              ELSE FuncOpSignatureConversion(input.symbols[k]))
    /\ (stage = "converting" /\ cur = Pos(MainSym, 0, 0, 0, 0) /\ calls.pass = 1) =>
          \A k \in 1..Len(input.symbols) : symbols[k] = input.symbols[k]
    /\ \A name \in Referenced \cap DeclaredNames : lookupSymbol(symbols, name)
    /\ (log.rw.ok /\ log.pattern = "async.runtime.create" /\ log.op.results[1].ty.k = "async.token")
          => EmittedCall(log.rw).attr.callee = kCreateToken
    /\ (log.rw.ok /\ log.pattern = "async.coro.begin")
          => AllocatorCalls(log.rw.created, kMalloc) # {}
    /\ (log.rw.ok /\ log.pattern = "async.runtime.resume")
          => \E i \in 1..Len(log.rw.created) :
                /\ log.rw.created[i].name = "llvm.mlir.addressof"
                /\ log.rw.created[i].attr.callee = kResume


\* The run succeeded on a unit that came with all three symbols and holds a
\* resume: the constructor's signature is converted, the allocator and the
\* function named like the trampoline are as they came, no trampoline was
\* added, and the body takes the address of that name.
C27_Witness ==
    /\ stage = "success"
    /\ Len(input.symbols) = 1 + Len(Occupants)
    /\ \A k \in Occupied :
          symbols[k] = input.symbols[k] <=> input.symbols[k].name # kCreateToken
    /\ \E k \in Occupied :
          /\ symbols[k].name = kCreateToken
          /\ symbols[k].type.results = <<opaquePointerType>>
    /\ \E k \in Occupied : symbols[k].name = kResume /\ symbols[k].op = "func"
    /\ \A k \in 1..Len(symbols) : symbols[k].name = kResume => symbols[k].op = "func"
    /\ kResume \in Referenced

(***************************************************************************)
(* C28: the declaration step adds every runtime and allocator declaration  *)
(* and no trampoline.  A step adds the trampoline only when it is the      *)
(* successful lowering of a resume, or of an await_and_resume on a Token,  *)
(* a Value or a Group.  Hence a unit that holds no resume and no           *)
(* await_and_resume of such a kind has no trampoline in any state of the   *)
(* run, also when its await_and_resume failed the kind check, while every  *)
(* declaration is present from the start of the conversion.                *)
(***************************************************************************)
NeedsTrampoline(op) ==
    \/ op.name = "async.runtime.resume"
    \/ /\ op.name = "async.runtime.await_and_resume"
       /\ op.operands[1].ty.k \in {"async.token", "async.value", "async.group"}

AllDeclared(syms) == \A name \in ApiNames \cup CRuntimeNames : Count(syms, name) = 1

C28_LazyTrampoline ==
    [][/\ Count(symbols', kResume) > Count(symbols, kResume) =>
            /\ log'.pattern \in {"async.runtime.resume", "async.runtime.await_and_resume"}
            /\ log'.rw.ok
            /\ NeedsTrampoline(log'.op)
            /\ blocks' # blocks
       /\ stage' # "start" => AllDeclared(symbols')
       /\ (\A op \in OpsOf(input.blocks) : ~NeedsTrampoline(op)) => Count(symbols', kResume) = 0
      ]_vars

\* The run failed on the kind check of the unit's only await_and_resume: all
\* declarations are there, the trampoline is not.
C28_Witness ==
    /\ stage = "failure"
    /\ log.pattern = "async.runtime.await_and_resume"
    /\ ~log.rw.ok
    /\ Cardinality({op \in OpsOf(input.blocks) : op.name = "async.runtime.await_and_resume"}) = 1
    /\ \A op \in OpsOf(input.blocks) : op.name # "async.runtime.resume"
    /\ AllDeclared(symbols)
    /\ Count(symbols, kResume) = 0

(***************************************************************************)
(* C29: when a store is lowered whose stored type has no LLVM type, or a   *)
(* load whose result type has none, the pattern has created the call to    *)
(* GetValueStorage, and nothing else, before it fails; after the failed    *)
(* rewrite that call is not in the unit, the store or load is the only op  *)
(* at its place and is the op of the input, operands included, and the     *)
(* stage has failed.                                                       *)
(***************************************************************************)
PayloadType(op) ==
    IF op.name = "async.runtime.store" THEN op.operands[2].ty ELSE op.results[1].ty

InLaterRun == (stage = "start" /\ calls.pass >= 1) \/ calls.pass >= 2

C30_Idempotent ==
    /\ [][InLaterRun =>
            /\ symbols' = symbols
            /\ blocks' = blocks
            /\ log' = NoLog
            /\ stage' \in {"start", "converting", "success"}]_vars
    /\ (calls.pass = 2 /\ stage = "converting") ~> (calls.pass = 2 /\ stage = "success")

\* The second run has succeeded on a unit in which the first run lowered a
\* resume: the body differs from the input and the unit holds one trampoline.
C30_Witness ==
    /\ stage = "success"
    /\ calls.pass = 2
    /\ calls.api = 2
    /\ blocks # input.blocks
    /\ Count(symbols, kResume) = 1
    /\ \A name \in ApiNames \cup CRuntimeNames : Count(symbols, name) = 1
    /\ \E op \in OpsOf(input.blocks) : op.name = "async.runtime.resume"

====
